---- MODULE Spec2Model ----
(***************************************************************************)
(* A model of the JobHunt graphics engine: the Direct3D 12 renderer's      *)
(* frame loop and fence synchronisation (Renderer.cpp), the platform shell *)
(* that drives it (main.cpp), the per-frame upload allocator               *)
(* (UploadAlloc.h, both versions in the tree) and the descriptor ring      *)
(* (DescriptorRing.h, DescriptorSystem.h).                                 *)
(*                                                                         *)
(* The CPU thread and the GPU are the two actors.  The CPU thread's        *)
(* position is (shell, op, wait): where wWinMain is, which Renderer call   *)
(* is on the stack, and where that call is inside its fence wait.  The GPU *)
(* consumes gpuQueue in order, in its own steps.                           *)
(***************************************************************************)
EXTENDS Integers, Sequences, FiniteSets, TLC

\* ------------------------------------------------------------------------
\* Program constants and model bounds
\* ------------------------------------------------------------------------

\* Renderer::kFrameCount
kFrameCount == 3

\* Fence values run up to this; the operations that signal stop there.
MaxFence == 6

\* D3D12_RESOURCE_STATES of the shadow texture, as the renderer tracks them.
DEPTH_WRITE == "DEPTH_WRITE"
PIXEL_SHADER_RESOURCE == "PIXEL_SHADER_RESOURCE"

\* UploadAlloc::Init is tried with 1 .. UploadMaxFrames frame regions.
UploadMaxFrames == 3

\* The upload buffer holds up to this many 64 KB blocks (plus a remainder).
UploadMaxBlocks == 2

\* Allocate calls followed within one frame.
UploadMaxAllocs == 3

\* The 64 KB the newer UploadAlloc rounds its per-frame size down to.
UploadGranularity == 65536

\* DescriptorRing::Init is tried with 1 .. RingMaxFrames slices.
RingMaxFrames == 3

\* ... and with heaps of 1 .. RingMaxTotal descriptors.
RingMaxTotal == 4

\* Slice::Alloc is called with n in 0 .. RingMaxN.
RingMaxN == 2

\* Alloc calls are followed while the cursor stays within this value.
RingMaxCursor == 4

\* FrameResourceManager::Init is tried with 1 .. FrmMaxFrames frames.
FrmMaxFrames == 3

\* BeginFrame is called with fence values 1 .. FrmMaxFence.
FrmMaxFence == 2

\* Arena allocations followed between two BeginFrame calls.
FrmMaxAllocs == 2

\* LinearArena capacities of FrameResources (256 * 1024 and 128 * 1024).
FrameArenaCapacity == 262144
PassArenaCapacity == 131072

\* Defaults of FrameResourceManager::Init: uploadSize = 32 * 1024 * 1024
\* and srvCount = 4096.
DefaultUploadSize == 33554432
DefaultSrvCount == 4096

\* frameCount default of UploadAlloc::Init.
DefaultUploadFrames == 3

\* Light yaw/pitch key presses (J, L, I, K) followed before a frame.
MaxLightKeys == 2
MatMaxCoef == 2
SceneCBSize == 160
m_cbSizeBytes == 262144

\* Client sizes a WM_SIZE message carries (LOWORD/HIWORD of lParam).
ResizeArgs == { <<1280, 720>>, <<1920, 1080>>, <<1024, 768>>, <<0, 0>>, <<0, 720>> }

VARIABLES
    \* ---- platform shell (main.cpp) and call stack -----------------------
    shell,            \* position of wWinMain
    op,               \* Renderer call in progress ("none" between calls)
    wait,             \* position inside the call's fence wait
    waitV,            \* the local v of WaitForGPU / MoveToNextFrame
    \* ---- Renderer members -----------------------------------------------
    m_fenceValue,     \* UINT64 m_fenceValue
    m_frameIndex,     \* UINT m_frameIndex
    m_cmdQueue,       \* m_cmdQueue != nullptr
    m_fenceEvent,     \* m_fenceEvent != nullptr
    m_size,           \* <<m_width, m_height>>
    m_viewport,       \* <<m_viewport.Width, m_viewport.Height>>
    m_scissor,        \* <<m_scissor.right, m_scissor.bottom>>
    m_aspect,         \* m_aspect of m_camera and m_playerCam, as <<w, h>> for w / h
    m_lightEnabled,
    m_shadowsEnabled,
    m_shadowState,
    \* ---- swapchain and GPU ----------------------------------------------
    bbIndex,          \* IDXGISwapChain3::GetCurrentBackBufferIndex()
    gpuQueue,         \* work the command queue has not executed yet
    fenceCompleted,   \* ID3D12Fence::GetCompletedValue()
    \* ---- history (what the claims speak about) --------------------------
    signals,          \* every value passed to m_cmdQueue->Signal, in order
    slotFence,        \* slot -> value signaled after its last submission
    resetSafe,        \* the last allocator Reset found its slot's work done
    frameLog,         \* pipeline states entered by the last recorded frame
    lastWait,         \* how the last fence wait ended
    initFailedStep,   \* the creation step of Initialize that failed
    waitFailed,       \* the call whose WaitForSingleObject failed, or "none"
    lastCall,         \* the last Renderer call the shell made
    m_transientUploads, \* fence values of the frames whose buffers are held
    lastRelease,      \* the last m_transientUploads.clear()
    renderSteps,      \* the steps the last Render call went through
    wndMsg,           \* the last window message WndProc got outside the
                      \* main loop's own dispatch
    m_cbHead,         \* cursor of the per-draw constant upload buffer
    cbFrames,         \* the byte ranges of that buffer that submitted
                      \* frames read, until their fence value is reached
    \* ---- upload allocator (UploadAlloc.h) -------------------------------
    ua,               \* the allocator's members
    uaLast,           \* the last Allocate request and its result
    \* ---- descriptor ring (DescriptorRing.h, DescriptorSystem.h) ---------
    ring,             \* DescriptorRing members, m_slices included
    ringCur,          \* frame index of the slice last handed out
    view,             \* the Slice copy inside DescriptorSystem::FrameView
    lastAlloc,        \* the last Slice::Alloc call and what it returned
    allocHist,        \* what was asked of the slice since its BeginFrame
    \* ---- opaque pass (Renderer::RecordDrawCalls) ------------------------
    scene,            \* the light and the show flags RecordDrawCalls reads
    cbLog,            \* SceneCB records the last RecordDrawCalls wrote
    \* ---- per-frame resources (FrameResources.h) -------------------------
    frm,              \* FrameResourceManager members
    frameRes,         \* the static FrameResources inside BeginFrame
    frmLast,          \* the last FrameResourceManager call
    \* ---- culling (the lambdas of Renderer::RecordDrawCalls) -------------
    frustum,          \* Fr6 F: the 6 planes and 8 corners last built
    cullLast,         \* the last box tested and the answer
    \* ---- matrix storage helpers (SolMath.h) and SceneCB ----------------
    mat,              \* a float4x4, the float[16] it was stored to, and
                      \* the float4x4 loaded back
    cbMat,            \* the matrix fields of the SceneCB last written
    \* ---- culling keys (Renderer::OnKeyDown) and MatStack (SolMath.h) ----
    cullKeys,         \* m_cullNear, m_cullFar, m_useCullOverride, the cameras
    mstack,           \* a MatStack and the MatPushGuards alive on it
    msLast            \* the last MatStack call

rendererVars == << shell, op, wait, waitV, m_fenceValue, m_frameIndex,
                   m_cmdQueue, m_fenceEvent, m_size, m_viewport,
                   m_scissor, m_aspect,
                   m_lightEnabled, m_shadowsEnabled, m_shadowState,
                   bbIndex, gpuQueue, fenceCompleted, signals, slotFence,
                   resetSafe, frameLog, lastWait, initFailedStep,
                   waitFailed, lastCall, m_transientUploads, lastRelease,
                   renderSteps, m_cbHead, cbFrames, wndMsg >>
uploadVars == << ua, uaLast >>
ringVars == << ring, ringCur, view, lastAlloc, allocHist >>
sceneVars == << scene, cbLog >>
frmVars == << frm, frameRes, frmLast >>
cullVars == << frustum, cullLast >>
matVars == << mat, cbMat >>
miscVars == << cullKeys, mstack, msLast >>
vars == << rendererVars, uploadVars, ringVars, sceneVars, frmVars, cullVars,
          matVars, miscVars >>

Slots == 0 .. (kFrameCount - 1)

\* ------------------------------------------------------------------------
\* Renderer: helpers
\* ------------------------------------------------------------------------

\* The creation steps of Initialize, in the order the code runs them.
InitSteps == << "device", "cmdqueue", "cmdalloc", "cmdlist", "fence", "event",
                "swapchain", "rtvheap", "depth", "rootsig", "shader", "pso",
                "cbuffer", "geometry", "shadowmap" >>

InitStepSet == { InitSteps[i] : i \in 1 .. Len(InitSteps) }

StepIndex(step) == CHOOSE i \in 1 .. Len(InitSteps) : InitSteps[i] = step

\* How a failed creation step leaves Initialize: every D3D/DXGI call is
\* wrapped in ThrowIfFailed (or CompileShader, which throws too); the one
\* step whose failure is returned is CreateEvent in CreateCommandObjects.
InitStepOutcome(step) == IF step = "event" THEN "false" ELSE "throw"

\* m_cmdQueue is set once CreateCommandQueue has succeeded.
QueueCreatedBefore(step) == StepIndex(step) > StepIndex("cmdqueue")

\* A fence test that never waits.
NeedsWait_Never(completed, v) == FALSE

\* The test both fence waits make after their Signal.
NeedsWait(completed, v) == completed < v

\* A Signal after which m_fenceValue is left as it was.
NextFenceValue_Stuck(v) == v

\* m_fenceValue++ after a Signal.
NextFenceValue(v) == v + 1

\* RenderShadowPass returns at once unless shadows and the light are both on.
ShadowPassRuns(shadows, light) == shadows /\ light

\* The steps of one Render call up to the place where `fault` throws:
\* Reset of the slot's allocator and of the list, the passes, Close and
\* ExecuteCommandLists, Present, then Signal and the new m_frameIndex in
\* MoveToNextFrame.
RenderSteps(passes, fault) ==
    << "ResetAllocator" >>
        \o (IF fault = "record" THEN << passes[1] >> ELSE passes)
        \o (IF fault = "record" THEN << >> ELSE << "Submit" >>)
        \o (IF fault \in { "record", "present" } THEN << >> ELSE << "Present" >>)
        \o (IF fault = "none" THEN << "Signal", "AdvanceFrameIndex" >> ELSE << >>)

\* m_transientUploads.clear(): what is released and how far the GPU is.
ReleaseRecord(caller) ==
    [ op |-> caller, buffers |-> m_transientUploads,
      completed |-> fenceCompleted ]

\* The pipeline states one Render call records, in order.
FramePasses(shadows, light) ==
    (IF ShadowPassRuns(shadows, light) THEN << "ShadowPass" >> ELSE << >>)
        \o << "OpaquePass", "HUDPass" >>

\* m_shadowState after RenderShadowPass: a pass that runs ends in the
\* shader-readable state, one that returns early leaves the state alone.
ShadowStateAfterPass(state, shadows, light) ==
    IF ShadowPassRuns(shadows, light) THEN PIXEL_SHADER_RESOURCE ELSE state

\* One bindMVP / bindMVP_Lines / bindHUD / bindShadow: the offset the
\* record is copied to, (m_cbHead + 255) & ~255u, and m_cbHead afterwards.
CbBind(head) ==
    LET off == ((head + 255) \div 256) * 256
    IN  [ off |-> off, head |-> off + SceneCBSize ]

\* m_cbHead after n binds.
RECURSIVE CbBindN(_, _)
CbBindN(head, n) == IF n = 0 THEN head ELSE CbBindN(CbBind(head).head, n - 1)

\* Binds of one frame besides the shadow pass's one: ground and player
\* axes only and no HUD, or grid, boxes, test cube and frustum as well and
\* the HUD.
FrameBinds == { 2, 7 }

\* The frames whose fence value the GPU has not reached.
CbInFlight(frames, completed) == { f \in frames : f.v > completed }

ExecItem(slot) == [ kind |-> "exec", slot |-> slot, v |-> 0 ]
SignalItem(v) == [ kind |-> "signal", slot |-> 0, v |-> v ]

\* The allocator Reset at the top of Render and in CreateGeometry is within
\* the D3D12 rules when the slot's recorded work has finished on the GPU.
ResetIsSafe(slot) == fenceCompleted >= slotFence[slot]

NoWait == [ op |-> "none", v |-> 0, blocked |-> FALSE, completed |-> 0,
            idle |-> TRUE ]

\* The fence wait of the call in progress has come back: the completed value
\* was already there at the test, or the event was set, or (WaitFails) the
\* wait itself failed and its result was dropped.
\* A wait whose event is never set: only the test before it lets a call go on.
WaitReturned_NeverWoken ==
    wait = "check" /\ ~NeedsWait(fenceCompleted, waitV)

WaitReturned ==
    \/ wait = "check" /\ ~NeedsWait(fenceCompleted, waitV)
    \/ wait = "blocked" /\ fenceCompleted >= waitV
    \/ wait = "wait_failed"

WaitRecord == [ op |-> op, v |-> waitV, blocked |-> (wait # "check"),
                completed |-> fenceCompleted, idle |-> (gpuQueue = << >>) ]

\* A std::runtime_error leaves the call; wWinMain has no handler, so the
\* process ends in std::terminate.
Terminate ==
    /\ shell' = "terminated"
    /\ op' = "none"
    /\ wait' = "none"

OnlyRenderer ==
    UNCHANGED << uploadVars, ringVars, sceneVars, frmVars, cullVars, matVars, miscVars >>
OnlyUpload ==
    UNCHANGED << rendererVars, ringVars, sceneVars, frmVars, cullVars, matVars, miscVars >>
OnlyRing ==
    UNCHANGED << rendererVars, uploadVars, sceneVars, frmVars, cullVars, matVars, miscVars >>
OnlyScene ==
    UNCHANGED << rendererVars, uploadVars, ringVars, frmVars, cullVars, matVars, miscVars >>
OnlyCull ==
    UNCHANGED << rendererVars, uploadVars, ringVars, sceneVars, frmVars, matVars, miscVars >>
OnlyMisc ==
    UNCHANGED << rendererVars, uploadVars, ringVars, sceneVars, frmVars, cullVars, matVars >>
OnlyMat ==
    UNCHANGED << rendererVars, uploadVars, ringVars, sceneVars, frmVars, cullVars, miscVars >>

\* SetLens(fovY, float(w) / float(h), zn, zf) on one camera only.
SetLens_FreeCameraOnly(aspect, d) == [ aspect EXCEPT !.camera = d ]

\* m_camera.SetLens and m_playerCam.SetLens with float(w) / float(h).
SetLens(aspect, d) == [ camera |-> d, playerCam |-> d ]

\* ------------------------------------------------------------------------
\* Renderer: state after construction
\* ------------------------------------------------------------------------

InitRenderer ==
    /\ shell = "start"
    /\ op = "none"
    /\ wait = "none"
    /\ waitV = 0
    /\ m_fenceValue = 0
    /\ m_frameIndex = 0
    /\ m_cmdQueue = FALSE
    /\ m_fenceEvent = FALSE
    /\ m_size = << 1280, 720 >>
    /\ m_viewport = << 0, 0 >>
    /\ m_scissor = << 0, 0 >>
    /\ m_aspect = [ camera |-> << 16, 9 >>, playerCam |-> << 16, 9 >> ]
    /\ m_lightEnabled = TRUE
    /\ m_shadowsEnabled = TRUE
    /\ m_shadowState = DEPTH_WRITE
    /\ bbIndex = 0
    /\ gpuQueue = << >>
    /\ fenceCompleted = 0
    /\ signals = << >>
    /\ slotFence = [ k \in Slots |-> 0 ]
    /\ resetSafe = TRUE
    /\ frameLog = << >>
    /\ lastWait = NoWait
    /\ initFailedStep = "none"
    /\ waitFailed = "none"
    /\ lastCall = << "CreateRenderer" >>
    /\ m_transientUploads = { }
    /\ lastRelease = [ op |-> "none", buffers |-> { }, completed |-> 0 ]
    /\ renderSteps = << >>
    /\ m_cbHead = 0
    /\ cbFrames = { }
    /\ wndMsg = [ msg |-> "none", forwarded |-> FALSE, renderer |-> "none" ]


\* ------------------------------------------------------------------------
\* Renderer: Initialize
\* ------------------------------------------------------------------------

After(step, other) == StepIndex(step) > StepIndex(other)

\* Initialize with a creation step failing before CreateGeometry submits its
\* copy: the members set so far stay set, and the failure leaves Initialize
\* the way InitStepOutcome says.
InitializeFails ==
    /\ shell = "start"
    /\ op = "none"
    /\ \E step \in InitStepSet \ { "shadowmap" } :
        /\ initFailedStep' = step
        /\ m_cmdQueue' = QueueCreatedBefore(step)
        /\ m_fenceValue' = IF After(step, "fence") THEN 1 ELSE 0
        /\ m_fenceEvent' = After(step, "event")
        /\ m_viewport' = IF After(step, "rtvheap") THEN m_size ELSE m_viewport
        /\ m_scissor' = IF After(step, "rtvheap") THEN m_size ELSE m_scissor
        /\ UNCHANGED m_aspect
        /\ IF InitStepOutcome(step) = "false"
           THEN shell' = "init_returned_false" /\ op' = "none" /\ wait' = "none"
           ELSE Terminate
    /\ lastCall' = << "Initialize" >>
    /\ UNCHANGED << waitV, m_frameIndex, m_size, m_lightEnabled,
                    m_shadowsEnabled, m_shadowState, bbIndex, gpuQueue,
                    fenceCompleted, signals, slotFence, resetSafe, frameLog,
                    lastWait, waitFailed >>
    /\ OnlyRenderer
    /\ UNCHANGED << m_cbHead, cbFrames >>
    /\ UNCHANGED wndMsg
    /\ UNCHANGED << m_transientUploads, lastRelease, renderSteps >>

\* Initialize up to the WaitForGPU inside CreateGeometry: the objects exist,
\* the copy list recorded with slot m_frameIndex is on the queue, and the
\* fence is signaled with m_fenceValue (1).
InitializeSubmits ==
    /\ shell = "start"
    /\ op = "none"
    /\ m_cmdQueue' = TRUE
    /\ m_fenceEvent' = TRUE
    /\ m_viewport' = m_size
    /\ m_scissor' = m_size
    /\ UNCHANGED m_aspect
    /\ m_frameIndex' = bbIndex
    /\ resetSafe' = ResetIsSafe(bbIndex)
    /\ lastCall' = << "Initialize" >>
    /\ \E signalOk \in BOOLEAN :
        IF signalOk
        THEN /\ gpuQueue' = gpuQueue \o << ExecItem(bbIndex), SignalItem(1) >>
             /\ signals' = Append(signals, 1)
             /\ m_fenceValue' = NextFenceValue(1)
             /\ slotFence' = [ slotFence EXCEPT ![bbIndex] = 1 ]
             /\ op' = "Initialize"
             /\ wait' = "check"
             /\ waitV' = 1
             /\ UNCHANGED << shell, initFailedStep >>
        ELSE /\ gpuQueue' = Append(gpuQueue, ExecItem(bbIndex))
             /\ m_fenceValue' = 1
             /\ initFailedStep' = "geometry"
             /\ Terminate
             /\ UNCHANGED << signals, slotFence, waitV >>
    /\ UNCHANGED << m_size, m_lightEnabled, m_shadowsEnabled, m_shadowState,
                    bbIndex, fenceCompleted, frameLog, lastWait, waitFailed >>
    /\ OnlyRenderer
    /\ UNCHANGED << m_cbHead, cbFrames >>
    /\ UNCHANGED wndMsg
    /\ UNCHANGED << m_transientUploads, lastRelease, renderSteps >>

\* The rest of Initialize after WaitForGPU has returned: CreateShadowMap,
\* then the cameras and defaults.
FinishInitialize ==
    /\ op = "Initialize"
    /\ WaitReturned
    /\ lastWait' = WaitRecord
    /\ \E shadowMapOk \in BOOLEAN :
        IF shadowMapOk
        THEN /\ shell' = "loop"
             /\ op' = "none"
             /\ wait' = "none"
             /\ m_aspect' = SetLens(m_aspect, m_size)
             /\ UNCHANGED initFailedStep
        ELSE /\ initFailedStep' = "shadowmap"
             /\ Terminate
             /\ UNCHANGED m_aspect
    /\ UNCHANGED m_scissor
    /\ UNCHANGED << waitV, m_fenceValue, m_frameIndex, m_cmdQueue,
                    m_fenceEvent, m_size, m_viewport, m_lightEnabled,
                    m_shadowsEnabled, m_shadowState, bbIndex, gpuQueue,
                    fenceCompleted, signals, slotFence, resetSafe, frameLog,
                    waitFailed, lastCall >>
    /\ OnlyRenderer
    /\ UNCHANGED << m_cbHead, cbFrames >>
    /\ UNCHANGED wndMsg
    /\ UNCHANGED << m_transientUploads, lastRelease, renderSteps >>

\* ------------------------------------------------------------------------
\* Renderer: the fence wait shared by WaitForGPU and MoveToNextFrame
\* ------------------------------------------------------------------------

\* GetCompletedValue() < v: SetEventOnCompletion (which may fail and throw),
\* then WaitForSingleObject(m_fenceEvent, INFINITE).
FenceBlocks ==
    /\ wait = "check"
    /\ NeedsWait(fenceCompleted, waitV)
    /\ \E setEventOk \in BOOLEAN :
        IF setEventOk
        THEN /\ wait' = "blocked"
             /\ UNCHANGED << shell, op, initFailedStep >>
        ELSE /\ initFailedStep' =
                    IF op = "Initialize" THEN "geometry" ELSE initFailedStep
             /\ Terminate
    /\ UNCHANGED << waitV, m_fenceValue, m_frameIndex, m_cmdQueue,
                    m_fenceEvent, m_size, m_viewport, m_lightEnabled,
                    m_shadowsEnabled, m_shadowState, bbIndex, gpuQueue,
                    fenceCompleted, signals, slotFence, resetSafe, frameLog,
                    lastWait, waitFailed, lastCall >>
    /\ OnlyRenderer
    /\ UNCHANGED << m_cbHead, cbFrames >>
    /\ UNCHANGED wndMsg
    /\ UNCHANGED << m_transientUploads, lastRelease, renderSteps >>
    /\ UNCHANGED << m_scissor, m_aspect >>

\* WaitForSingleObject returns WAIT_FAILED before the fence has reached v.
\* The code drops the return value, so the caller goes on.
WaitFails ==
    /\ wait = "blocked"
    /\ fenceCompleted < waitV
    /\ wait' = "wait_failed"
    /\ waitFailed' = op
    /\ UNCHANGED << shell, op, waitV, m_fenceValue, m_frameIndex, m_cmdQueue,
                    m_fenceEvent, m_size, m_viewport, m_lightEnabled,
                    m_shadowsEnabled, m_shadowState, bbIndex, gpuQueue,
                    fenceCompleted, signals, slotFence, resetSafe, frameLog,
                    lastWait, initFailedStep, lastCall >>
    /\ OnlyRenderer
    /\ UNCHANGED << m_cbHead, cbFrames >>
    /\ UNCHANGED wndMsg
    /\ UNCHANGED << m_transientUploads, lastRelease, renderSteps >>
    /\ UNCHANGED << m_scissor, m_aspect >>


\* ------------------------------------------------------------------------
\* Renderer: input, Render, Resize, Shutdown
\* ------------------------------------------------------------------------

\* OnKeyDown for the keys that switch the light ('H') and the shadows ('B').
OnKeyDown ==
    /\ shell = "loop"
    /\ op = "none"
    /\ \E k \in { "H", "B" } :
        /\ m_lightEnabled' = IF k = "H" THEN ~m_lightEnabled ELSE m_lightEnabled
        /\ m_shadowsEnabled' =
                IF k = "B" THEN ~m_shadowsEnabled ELSE m_shadowsEnabled
        /\ lastCall' = << "OnKeyDown", k >>
    /\ UNCHANGED << shell, op, wait, waitV, m_fenceValue, m_frameIndex,
                    m_cmdQueue, m_fenceEvent, m_size, m_viewport,
                    m_shadowState, bbIndex, gpuQueue, fenceCompleted, signals,
                    slotFence, resetSafe, frameLog, lastWait, initFailedStep,
                    waitFailed >>
    /\ OnlyRenderer
    /\ UNCHANGED << m_cbHead, cbFrames >>
    /\ UNCHANGED wndMsg
    /\ UNCHANGED << m_transientUploads, lastRelease, renderSteps >>
    /\ UNCHANGED << m_scissor, m_aspect >>

\* Render up to the fence test inside MoveToNextFrame: reset the slot's
\* allocator, record the passes, ExecuteCommandLists, Present, Signal,
\* m_fenceValue++, m_frameIndex = GetCurrentBackBufferIndex().  A failing
\* call throws out of Render at the place it is made.
Render ==
    /\ shell = "loop"
    /\ op = "none"
    /\ m_fenceValue < MaxFence
    /\ lastCall' = << "Render" >>
    /\ resetSafe' = ResetIsSafe(m_frameIndex)
    /\ LET slot == m_frameIndex
           v == m_fenceValue
           passes == FramePasses(m_shadowsEnabled, m_lightEnabled)
           shadowRan == ShadowPassRuns(m_shadowsEnabled, m_lightEnabled)
           next == (bbIndex + 1) % kFrameCount
       IN
       \E fault \in { "none", "record", "present", "signal" } :
        /\ m_shadowState' = ShadowStateAfterPass(m_shadowState,
                                m_shadowsEnabled, m_lightEnabled)
        /\ frameLog' = IF fault = "record"
                       THEN (IF shadowRan THEN << "ShadowPass" >> ELSE << >>)
                                \o << "OpaquePass" >>
                       ELSE Append(passes, "Submitted")
        /\ bbIndex' = IF fault \in { "none", "signal" } THEN next ELSE bbIndex
        /\ renderSteps' = RenderSteps(passes, fault)
        /\ m_transientUploads' = m_transientUploads \cup { v }
        /\ \E binds \in FrameBinds :
            LET n == binds + (IF shadowRan THEN 1 ELSE 0)
            IN  /\ m_cbHead' = CbBindN(m_cbHead, n)
                /\ cbFrames' =
                       CbInFlight(cbFrames, fenceCompleted)
                           \cup (IF fault = "none"
                                 THEN { [ v |-> v, lo |-> CbBind(m_cbHead).off,
                                          hi |-> CbBindN(m_cbHead, n), n |-> n ] }
                                 ELSE { })
        /\ IF fault = "none"
           THEN /\ gpuQueue' = gpuQueue \o << ExecItem(slot), SignalItem(v) >>
                /\ signals' = Append(signals, v)
                /\ m_fenceValue' = NextFenceValue(v)
                /\ m_frameIndex' = next
                /\ slotFence' = [ slotFence EXCEPT ![slot] = v ]
                /\ op' = "Render"
                /\ wait' = "check"
                /\ waitV' = v
                /\ UNCHANGED shell
           ELSE /\ gpuQueue' = IF fault = "record" THEN gpuQueue
                               ELSE Append(gpuQueue, ExecItem(slot))
                /\ Terminate
                /\ UNCHANGED << signals, m_fenceValue, m_frameIndex,
                                slotFence, waitV >>
    /\ UNCHANGED << m_cmdQueue, m_fenceEvent, m_size, m_viewport,
                    m_lightEnabled, m_shadowsEnabled, fenceCompleted,
                    lastWait, initFailedStep, waitFailed, lastRelease >>
    /\ OnlyRenderer
    /\ UNCHANGED wndMsg
    /\ UNCHANGED << m_scissor, m_aspect >>

\* The tail of MoveToNextFrame once the wait is over, and Render's return.
FinishRender ==
    /\ op = "Render"
    /\ WaitReturned
    /\ lastWait' = WaitRecord
    /\ op' = "none"
    /\ wait' = "none"
    /\ UNCHANGED << shell, waitV, m_fenceValue, m_frameIndex, m_cmdQueue,
                    m_fenceEvent, m_size, m_viewport, m_lightEnabled,
                    m_shadowsEnabled, m_shadowState, bbIndex, gpuQueue,
                    fenceCompleted, signals, slotFence, resetSafe, frameLog,
                    initFailedStep, waitFailed, lastCall >>
    /\ m_transientUploads' = { }
    /\ lastRelease' = ReleaseRecord("Render")
    /\ m_cbHead' = 0
    /\ cbFrames' = CbInFlight(cbFrames, fenceCompleted)
    /\ UNCHANGED renderSteps
    /\ OnlyRenderer
    /\ UNCHANGED wndMsg
    /\ UNCHANGED << m_scissor, m_aspect >>

\* A call of WaitForGPU up to its fence test, on behalf of caller.
BeginWaitForGPU(caller) ==
    \E signalOk \in BOOLEAN :
        IF signalOk
        THEN /\ gpuQueue' = Append(gpuQueue, SignalItem(m_fenceValue))
             /\ signals' = Append(signals, m_fenceValue)
             /\ m_fenceValue' = NextFenceValue(m_fenceValue)
             /\ op' = caller
             /\ wait' = "check"
             /\ waitV' = m_fenceValue
             /\ UNCHANGED shell
        ELSE /\ Terminate
             /\ UNCHANGED << gpuQueue, signals, m_fenceValue, waitV >>

\* Resize(w, h), forwarded by WndProc on WM_SIZE: nothing for an empty
\* client area, else RecreateOnResize up to the test inside WaitForGPU.
Resize ==
    /\ shell = "loop"
    /\ op = "none"
    /\ \E d \in ResizeArgs :
        /\ lastCall' = << "Resize", d >>
        /\ IF d[1] = 0 \/ d[2] = 0
           THEN UNCHANGED << shell, op, wait, waitV, gpuQueue, signals,
                             m_fenceValue >>
           ELSE /\ m_fenceValue < MaxFence
                /\ BeginWaitForGPU("Resize")
    /\ UNCHANGED << m_frameIndex, m_cmdQueue, m_fenceEvent, m_size,
                    m_viewport, m_lightEnabled, m_shadowsEnabled,
                    m_shadowState, bbIndex, fenceCompleted, slotFence,
                    resetSafe, frameLog, lastWait, initFailedStep,
                    waitFailed >>
    /\ OnlyRenderer
    /\ UNCHANGED << m_cbHead, cbFrames >>
    /\ UNCHANGED wndMsg
    /\ UNCHANGED << m_transientUploads, lastRelease, renderSteps >>
    /\ UNCHANGED << m_scissor, m_aspect >>

\* RecreateOnResize after WaitForGPU: release the back buffers and the depth
\* buffer, ResizeBuffers, new views, CreateDepth, then the new size.
FinishResize ==
    /\ op = "Resize"
    /\ WaitReturned
    /\ lastWait' = WaitRecord
    /\ \E fault \in { "none", "resizebuffers", "depth" } :
        /\ bbIndex' = IF fault = "resizebuffers" THEN bbIndex ELSE 0
        /\ m_frameIndex' = IF fault = "resizebuffers" THEN m_frameIndex ELSE 0
        /\ IF fault = "none"
           THEN /\ m_size' = lastCall[2]
                /\ m_viewport' = lastCall[2]
                /\ m_scissor' = lastCall[2]
                /\ m_aspect' = SetLens(m_aspect, lastCall[2])
                /\ op' = "none"
                /\ wait' = "none"
                /\ UNCHANGED shell
           ELSE /\ Terminate
                /\ UNCHANGED << m_size, m_viewport, m_scissor, m_aspect >>
    /\ UNCHANGED << waitV, m_fenceValue, m_cmdQueue, m_fenceEvent,
                    m_lightEnabled, m_shadowsEnabled, m_shadowState, gpuQueue,
                    fenceCompleted, signals, slotFence, resetSafe, frameLog,
                    initFailedStep, waitFailed, lastCall >>
    /\ OnlyRenderer
    /\ UNCHANGED << m_cbHead, cbFrames >>
    /\ UNCHANGED wndMsg
    /\ UNCHANGED << m_transientUploads, lastRelease, renderSteps >>

\* The shell's explicit Shutdown after WM_QUIT: m_cmdQueue is set, so
\* WaitForGPU runs first.
Shutdown ==
    /\ shell = "loop"
    /\ op = "none"
    /\ m_fenceValue <= MaxFence
    /\ m_cmdQueue
    /\ lastCall' = << "Shutdown" >>
    /\ BeginWaitForGPU("Shutdown")
    /\ UNCHANGED << m_frameIndex, m_cmdQueue, m_fenceEvent, m_size,
                    m_viewport, m_lightEnabled, m_shadowsEnabled,
                    m_shadowState, bbIndex, fenceCompleted, slotFence,
                    resetSafe, frameLog, lastWait, initFailedStep,
                    waitFailed >>
    /\ OnlyRenderer
    /\ UNCHANGED << m_cbHead, cbFrames >>
    /\ UNCHANGED wndMsg
    /\ UNCHANGED << m_transientUploads, lastRelease, renderSteps >>
    /\ UNCHANGED << m_scissor, m_aspect >>

\* A Shutdown that leaves m_cmdQueue as it is.
ReleasedQueue_Kept(queue) == queue

\* m_cmdQueue.Reset(): the member is null afterwards.
ReleasedQueue(queue) == FALSE

\* Shutdown after its wait: close the event and release every object.
FinishShutdown ==
    /\ op = "Shutdown"
    /\ WaitReturned
    /\ lastWait' = WaitRecord
    /\ m_fenceEvent' = FALSE
    /\ m_cmdQueue' = ReleasedQueue(m_cmdQueue)
    /\ shell' = "stopped"
    /\ op' = "none"
    /\ wait' = "none"
    /\ UNCHANGED << waitV, m_fenceValue, m_frameIndex, m_size, m_viewport,
                    m_lightEnabled, m_shadowsEnabled, m_shadowState, bbIndex,
                    gpuQueue, fenceCompleted, signals, slotFence, resetSafe,
                    frameLog, initFailedStep, waitFailed, lastCall >>
    /\ m_transientUploads' = { }
    /\ lastRelease' = ReleaseRecord("Shutdown")
    /\ UNCHANGED renderSteps
    /\ OnlyRenderer
    /\ UNCHANGED << m_cbHead, cbFrames >>
    /\ UNCHANGED wndMsg
    /\ UNCHANGED << m_scissor, m_aspect >>

\* Where wWinMain ends after DestroyRenderer.
ShellAfterDestroy == IF shell = "stopped" THEN "exited" ELSE "init_failed"

\* DestroyRenderer: delete runs ~Renderer, which calls Shutdown again.  After
\* the explicit Shutdown m_cmdQueue is null and nothing is waited for; after
\* Initialize returned false the queue exists and WaitForGPU runs.
DestroyRenderer ==
    /\ shell \in { "stopped", "init_returned_false" }
    /\ op = "none"
    /\ lastCall' = << "DestroyRenderer" >>
    /\ IF m_cmdQueue
       THEN /\ BeginWaitForGPU("Destroy")
            /\ UNCHANGED << m_transientUploads, lastRelease >>
       ELSE /\ shell' = ShellAfterDestroy
            /\ m_transientUploads' = { }
            /\ lastRelease' = ReleaseRecord("Destroy")
            /\ UNCHANGED << op, wait, waitV, gpuQueue, signals, m_fenceValue >>
    /\ UNCHANGED renderSteps
    /\ UNCHANGED << m_frameIndex, m_cmdQueue, m_fenceEvent, m_size,
                    m_viewport, m_lightEnabled, m_shadowsEnabled,
                    m_shadowState, bbIndex, fenceCompleted, slotFence,
                    resetSafe, frameLog, lastWait, initFailedStep,
                    waitFailed >>
    /\ OnlyRenderer
    /\ UNCHANGED << m_cbHead, cbFrames >>
    /\ UNCHANGED wndMsg
    /\ UNCHANGED << m_scissor, m_aspect >>

FinishDestroy ==
    /\ op = "Destroy"
    /\ WaitReturned
    /\ lastWait' = WaitRecord
    /\ m_fenceEvent' = FALSE
    /\ m_cmdQueue' = ReleasedQueue(m_cmdQueue)
    /\ shell' = ShellAfterDestroy
    /\ op' = "none"
    /\ wait' = "none"
    /\ UNCHANGED << waitV, m_fenceValue, m_frameIndex, m_size, m_viewport,
                    m_lightEnabled, m_shadowsEnabled, m_shadowState, bbIndex,
                    gpuQueue, fenceCompleted, signals, slotFence, resetSafe,
                    frameLog, initFailedStep, waitFailed, lastCall >>
    /\ m_transientUploads' = { }
    /\ lastRelease' = ReleaseRecord("Destroy")
    /\ UNCHANGED renderSteps
    /\ OnlyRenderer
    /\ UNCHANGED << m_cbHead, cbFrames >>
    /\ UNCHANGED wndMsg
    /\ UNCHANGED << m_scissor, m_aspect >>

\* The global gRenderer of main.cpp: set by CreateRenderer before
\* Initialize, left as it is by DestroyRenderer(gRenderer) on the failure
\* path, and set to nullptr only after the DestroyRenderer at the end.
gRenderer ==
    CASE shell = "exited" -> "null"
      [] shell = "init_failed" -> "deleted"
      [] OTHER -> "object"

\* WndProc called from the modal loop of MessageBoxW(nullptr, L"Renderer
\* init failed", ...): the window is still there and gets its messages.
\* Each case forwards when gRenderer is not null.
WndProcInMessageBox ==
    /\ shell = "init_failed"
    /\ op = "none"
    /\ \E msg \in { "WM_SIZE", "WM_KEYDOWN", "WM_KEYUP", "WM_MOUSEMOVE",
                    "WM_MOUSEWHEEL" } :
           wndMsg' = [ msg |-> msg, forwarded |-> (gRenderer # "null"),
                       renderer |-> gRenderer ]
    /\ UNCHANGED << shell, op, wait, waitV, m_fenceValue, m_frameIndex,
                    m_cmdQueue, m_fenceEvent, m_size, m_viewport,
                    m_lightEnabled, m_shadowsEnabled, m_shadowState, bbIndex,
                    gpuQueue, fenceCompleted, signals, slotFence, resetSafe,
                    frameLog, lastWait, initFailedStep, waitFailed, lastCall >>
    /\ OnlyRenderer
    /\ UNCHANGED << m_cbHead, cbFrames >>
    /\ UNCHANGED << m_transientUploads, lastRelease, renderSteps >>
    /\ UNCHANGED << m_scissor, m_aspect >>

\* ------------------------------------------------------------------------
\* GPU: the command queue executes its items in order
\* ------------------------------------------------------------------------

GpuExecute ==
    /\ gpuQueue # << >>
    /\ Head(gpuQueue).kind = "exec"
    /\ gpuQueue' = Tail(gpuQueue)
    /\ UNCHANGED << shell, op, wait, waitV, m_fenceValue, m_frameIndex,
                    m_cmdQueue, m_fenceEvent, m_size, m_viewport,
                    m_lightEnabled, m_shadowsEnabled, m_shadowState, bbIndex,
                    fenceCompleted, signals, slotFence, resetSafe, frameLog,
                    lastWait, initFailedStep, waitFailed, lastCall >>
    /\ OnlyRenderer
    /\ UNCHANGED << m_cbHead, cbFrames >>
    /\ UNCHANGED wndMsg
    /\ UNCHANGED << m_transientUploads, lastRelease, renderSteps >>
    /\ UNCHANGED << m_scissor, m_aspect >>

GpuSignal ==
    /\ gpuQueue # << >>
    /\ Head(gpuQueue).kind = "signal"
    /\ fenceCompleted' = Head(gpuQueue).v
    /\ gpuQueue' = Tail(gpuQueue)
    /\ UNCHANGED << shell, op, wait, waitV, m_fenceValue, m_frameIndex,
                    m_cmdQueue, m_fenceEvent, m_size, m_viewport,
                    m_lightEnabled, m_shadowsEnabled, m_shadowState, bbIndex,
                    signals, slotFence, resetSafe, frameLog, lastWait,
                    initFailedStep, waitFailed, lastCall >>
    /\ OnlyRenderer
    /\ UNCHANGED << m_cbHead, cbFrames >>
    /\ UNCHANGED wndMsg
    /\ UNCHANGED << m_transientUploads, lastRelease, renderSteps >>
    /\ UNCHANGED << m_scissor, m_aspect >>

\* ------------------------------------------------------------------------
\* Placeholders of the other components while the renderer runs
\* ------------------------------------------------------------------------

InitUploadIdle ==
    /\ ua = [ variant |-> "none" ]
    /\ uaLast = [ kind |-> "none" ]

InitRingIdle ==
    /\ ring = [ owner |-> "none" ]
    /\ ringCur = 0
    /\ view = [ first |-> 0, count |-> 0, cursor |-> 0 ]
    /\ lastAlloc = [ kind |-> "none" ]
    /\ allocHist = [ sum |-> 0, dirty |-> FALSE ]

\* ------------------------------------------------------------------------
\* Specifications of the renderer
\* ------------------------------------------------------------------------

\* No scene followed: the members RecordDrawCalls reads at their initialisers.
InitSceneIdle ==
    /\ scene = [ keys |-> 0 ]
    /\ cbLog = << >>

\* No FrameResourceManager followed.
InitFrmIdle ==
    /\ frm = [ ready |-> FALSE ]
    /\ frameRes = [ index |-> 0 ]
    /\ frmLast = [ kind |-> "none" ]

\* No frustum built.
InitCullIdle ==
    /\ frustum = [ built |-> FALSE ]
    /\ cullLast = [ kind |-> "none" ]

\* No matrix stored, no record written.
InitMatIdle ==
    /\ mat = [ kind |-> "none" ]
    /\ cbMat = [ kind |-> "none" ]

\* No culling key pressed, no MatStack made.
InitMiscIdle ==
    /\ cullKeys = [ presses |-> 0 ]
    /\ mstack = [ top |-> 0 ]
    /\ msLast = [ op |-> "none" ]

Init ==
    /\ InitRenderer /\ InitUploadIdle /\ InitRingIdle /\ InitSceneIdle
    /\ InitFrmIdle /\ InitCullIdle /\ InitMatIdle /\ InitMiscIdle

Next ==
    \/ InitializeFails
    \/ InitializeSubmits
    \/ FinishInitialize
    \/ FenceBlocks
    \/ OnKeyDown
    \/ Render
    \/ FinishRender
    \/ Resize
    \/ FinishResize
    \/ Shutdown
    \/ FinishShutdown
    \/ DestroyRenderer
    \/ FinishDestroy
    \/ WndProcInMessageBox
    \/ GpuExecute
    \/ GpuSignal

Spec == Init /\ [][Next]_vars

\* The same program where WaitForSingleObject may also fail.
NextFault == Next \/ WaitFails

SpecFault == Init /\ [][NextFault]_vars


\* ------------------------------------------------------------------------
\* Claims about the renderer
\* ------------------------------------------------------------------------

\* The fence values signaled and not yet completed.
Outstanding == { i \in DOMAIN signals : signals[i] > fenceCompleted }

\* C1: frame pacing with buffering depth 3.  The CPU blocks inside
\* MoveToNextFrame only when more than kFrameCount signaled fence values are
\* outstanding: with k <= 3 frames advanced and nothing completed it does
\* not block.
C1_BlocksOnlyBeyondDepth ==
    (op = "Render" /\ wait = "blocked") => Cardinality(Outstanding) > kFrameCount

C4_AllPassesEveryFrame ==
    (frameLog # << >> /\ frameLog[Len(frameLog)] = "Submitted")
        => frameLog = << "ShadowPass", "OpaquePass", "HUDPass", "Submitted" >>

\* C5: the values passed to Signal are strictly increasing, and the
\* completed value is never written by the CPU: it is 0 or a signaled value,
\* and it changes only when the GPU reaches a Signal on the queue, in a step
\* that leaves the CPU's own state alone.
C5_SignalsStrictlyIncrease ==
    /\ [](/\ \A i, j \in DOMAIN signals : i < j => signals[i] < signals[j]
          /\ fenceCompleted \in { 0 } \cup { signals[i] : i \in DOMAIN signals })
    /\ [][ fenceCompleted' # fenceCompleted =>
              /\ gpuQueue # << >>
              /\ Head(gpuQueue).kind = "signal"
              /\ fenceCompleted' = Head(gpuQueue).v
              /\ UNCHANGED << shell, op, wait, m_fenceValue, signals >> ]_vars

\* C5 witness: Initialize, Render, Resize and Shutdown have all signaled.
C5_Witness ==
    /\ shell = "stopped"
    /\ Len(signals) >= 4
    /\ fenceCompleted = signals[Len(signals)]

C7_InitFailureReturnsFalse ==
    initFailedStep # "none" => shell \in { "init_returned_false", "init_failed" }

\* C8: a failed fence wait is fatal.  Once a wait on the fence event has
\* failed, the call it was made in does not return normally: the failure
\* leaves Render, Resize or Shutdown as an error.
C8_FailedWaitIsFatal ==
    (waitFailed \in { "Render", "Resize", "Shutdown" } /\ wait # "wait_failed")
        => shell = "terminated"


\* ------------------------------------------------------------------------
\* Upload allocator (UploadAlloc.h)
\*
\* The tree holds two versions of the class: "A" is
\* include/GraphicsEngine/Memory/UploadAlloc.h (the one FrameResources.h
\* includes), "B" is include/Memory/UploadAlloc.h.  ua.variant says which
\* one the object is; ua.ndebug says whether assert is compiled out.
\* ------------------------------------------------------------------------

\* (x + (alignment - 1)) & ~(alignment - 1), alignment a power of two.
AlignUp(x, alignment) ==
    (x + (alignment - 1)) - ((x + (alignment - 1)) % alignment)

\* m_perFrameSize as Init computes it.
UploadPerFrameSize(variant, totalSize, frameCount) ==
    IF variant = "A"
    THEN totalSize \div frameCount
    ELSE ((totalSize \div frameCount) \div UploadGranularity) * UploadGranularity

UploadFrameStart(u) == u.currentFrame * u.perFrameSize
UploadFrameEnd(u) == UploadFrameStart(u) + u.perFrameSize

\* What Allocate(size, alignment) does on allocator u: "null" is the default
\* Allocation{} (cpuPtr == nullptr), "ptr" an allocation at m_cpuBase +
\* offset, "abort" the assert(false) of version B in a build with asserts.
UploadAllocateResult(u, size, alignment) ==
    LET aligned == AlignUp(u.head, alignment)
        newHead == aligned + size
    IN  IF u.variant = "B" /\ size = 0
        THEN [ kind |-> "null", offset |-> 0, head |-> u.head ]
        ELSE IF newHead > UploadFrameEnd(u)
        THEN IF u.variant = "B" /\ ~u.ndebug
             THEN [ kind |-> "abort", offset |-> 0, head |-> u.head ]
             ELSE [ kind |-> "null", offset |-> 0, head |-> u.head ]
        ELSE [ kind |-> "ptr", offset |-> aligned, head |-> newHead ]

UploadTotals ==
    { UploadGranularity * n + r : n \in 1 .. UploadMaxBlocks, r \in { 0, 1000 } }

UploadAlignments == { 1, 16, 256 }

\* Request sizes around the interesting places of a region of size p.
UploadSizes(p) == { n \in { 0, 1, p - 1, p, p + 1 } : n >= 0 }

\* After construction: all members zero.
InitUpload ==
    /\ \E variant \in { "A", "B" }, ndebug \in BOOLEAN :
        ua = [ variant |-> variant, ndebug |-> ndebug, ready |-> FALSE,
               aborted |-> FALSE, totalSize |-> 0, frameCount |-> 0,
               perFrameSize |-> 0, currentFrame |-> 0, head |-> 0,
               allocs |-> 0 ]
    /\ uaLast = [ kind |-> "none" ]

\* UploadAlloc::Init(device, totalSize, frameCount), the buffer created.
UploadInit ==
    /\ ~ua.ready
    /\ \E totalSize \in UploadTotals, frameCount \in 1 .. UploadMaxFrames :
        ua' = [ ua EXCEPT !.ready = TRUE,
                          !.totalSize = totalSize,
                          !.frameCount = frameCount,
                          !.perFrameSize =
                              UploadPerFrameSize(ua.variant, totalSize, frameCount),
                          !.currentFrame = 0,
                          !.head = 0 ]
    /\ uaLast' = [ kind |-> "init" ]
    /\ OnlyUpload

\* UploadAlloc::BeginFrame(frameIndex).
UploadBeginFrame ==
    /\ ua.ready
    /\ ~ua.aborted
    /\ \E frameIndex \in 0 .. (ua.frameCount - 1) :
        /\ ua' = [ ua EXCEPT !.currentFrame = frameIndex,
                             !.head = frameIndex * ua.perFrameSize,
                             !.allocs = 0 ]
        /\ uaLast' = [ kind |-> "begin", frame |-> frameIndex ]
    /\ OnlyUpload

\* UploadAlloc::Allocate(size, alignment).
UploadAllocate ==
    /\ ua.ready
    /\ ~ua.aborted
    /\ ua.allocs < UploadMaxAllocs
    /\ \E size \in UploadSizes(ua.perFrameSize), alignment \in UploadAlignments :
        LET r == UploadAllocateResult(ua, size, alignment)
        IN  /\ ua' = [ ua EXCEPT !.head = r.head,
                                 !.aborted = (r.kind = "abort"),
                                 !.allocs = ua.allocs + 1 ]
            /\ uaLast' = [ kind |-> "alloc", size |-> size,
                           aligned |-> AlignUp(ua.head, alignment),
                           result |-> r.kind, offset |-> r.offset,
                           frameStart |-> UploadFrameStart(ua),
                           frameEnd |-> UploadFrameEnd(ua) ]
    /\ OnlyUpload

NextUpload ==
    \/ UploadInit
    \/ UploadBeginFrame
    \/ UploadAllocate

InitSpecUpload ==
    /\ InitRenderer /\ InitUpload /\ InitRingIdle /\ InitSceneIdle /\ InitFrmIdle
    /\ InitCullIdle /\ InitMatIdle /\ InitMiscIdle

SpecUpload == InitSpecUpload /\ [][NextUpload]_vars

SliceReset_Keep(slice) == slice

\* Slice::Reset.
SliceReset(slice) == [ slice EXCEPT !.cursor = 0 ]

\* Slice::Alloc(n): the offset returned and the slice afterwards.
SliceAlloc(slice, n) ==
    [ at |-> slice.cursor, slice |-> [ slice EXCEPT !.cursor = slice.cursor + n ] ]

\* Slice::CPU(index) and Slice::GPU(index), as the heap slot the handle
\* addresses: base is the heap start plus first * descriptorSize, and the
\* handle is base plus (cursor + index) * descriptorSize.
SliceHandle(slice, index) == slice.first + (slice.cursor + index)

\* m_slices with the per-frame count rounded up instead of down.
RingSlices_RoundUp(total, frames) ==
    [ i \in 0 .. (frames - 1) |->
        [ first |-> i * ((total + frames - 1) \div frames),
          count |-> (total + frames - 1) \div frames,
          cursor |-> 0 ] ]

\* m_slices as DescriptorRing::Init fills it.
RingSlices(total, frames) ==
    [ i \in 0 .. (frames - 1) |->
        [ first |-> i * (total \div frames),
          count |-> total \div frames,
          cursor |-> 0 ] ]

\* After construction: no heap, no slices.
InitRing ==
    /\ \E owner \in { "standalone", "system" } :
        ring = [ owner |-> owner, ready |-> FALSE, frames |-> 0, total |-> 0,
                 perFrameCount |-> 0, slices |-> RingSlices(0, 0) ]
    /\ ringCur = 0
    /\ view = [ first |-> 0, count |-> 0, cursor |-> 0 ]
    /\ lastAlloc = [ kind |-> "none" ]
    /\ allocHist = [ sum |-> 0, dirty |-> FALSE ]

\* DescriptorRing::Init(device, type, total, frames, shaderVisible);
\* heapOk is the outcome of CreateDescriptorHeap.
RingInit ==
    /\ ~ring.ready
    /\ ring.frames = 0
    /\ \E total \in 1 .. RingMaxTotal, frames \in 1 .. RingMaxFrames,
          heapOk \in BOOLEAN :
        ring' = IF heapOk
                THEN [ ring EXCEPT !.ready = TRUE,
                                   !.frames = frames,
                                   !.total = total,
                                   !.perFrameCount = total \div frames,
                                   !.slices = RingSlices(total, frames) ]
                ELSE [ ring EXCEPT !.frames = frames, !.total = total ]
    /\ UNCHANGED << ringCur, view, lastAlloc, allocHist >>
    /\ OnlyRing

\* DescriptorRing::BeginFrame(frameIndex), the caller keeping the Slice&.
RingBeginFrame ==
    /\ ring.ready
    /\ ring.owner = "standalone"
    /\ \E frameIndex \in 0 .. (ring.frames - 1) :
        /\ ring' = [ ring EXCEPT !.slices[frameIndex] = SliceReset(@) ]
        /\ ringCur' = frameIndex
        /\ allocHist' = [ sum |-> 0,
                          dirty |-> ring.slices[frameIndex].cursor > 0 ]
        /\ lastAlloc' = [ kind |-> "begin" ]
    /\ UNCHANGED view
    /\ OnlyRing

\* Slice::Alloc(n) through the Slice& of the last DescriptorRing::BeginFrame.
RingAlloc ==
    /\ ring.ready
    /\ ring.owner = "standalone"
    /\ lastAlloc.kind \in { "begin", "alloc" }
    /\ \E n \in 0 .. RingMaxN :
        LET r == SliceAlloc(ring.slices[ringCur], n)
        IN  /\ ring.slices[ringCur].cursor + n <= RingMaxCursor
            /\ ring' = [ ring EXCEPT !.slices[ringCur] = r.slice ]
            /\ lastAlloc' = [ kind |-> "alloc", n |-> n, at |-> r.at,
                              count |-> r.slice.count,
                              cursor |-> r.slice.cursor,
                              asked |-> allocHist.sum ]
            /\ allocHist' = [ allocHist EXCEPT !.sum = allocHist.sum + n ]
    /\ UNCHANGED << ringCur, view >>
    /\ OnlyRing

\* DescriptorSystem::BeginFrame(frameIndex): the ring's slice is reset and
\* copied into the FrameView returned by value.
SystemBeginFrame ==
    /\ ring.ready
    /\ ring.owner = "system"
    /\ \E frameIndex \in 0 .. (ring.frames - 1) :
        /\ ring' = [ ring EXCEPT !.slices[frameIndex] = SliceReset(@) ]
        /\ view' = SliceReset(ring.slices[frameIndex])
        /\ ringCur' = frameIndex
        /\ allocHist' = [ sum |-> 0, dirty |-> view.cursor > 0 ]
        /\ lastAlloc' = [ kind |-> "begin" ]
    /\ OnlyRing

\* Slice::Alloc(n) on the slice of the FrameView.
ViewAlloc ==
    /\ ring.ready
    /\ ring.owner = "system"
    /\ lastAlloc.kind \in { "begin", "alloc" }
    /\ \E n \in 0 .. RingMaxN :
        LET r == SliceAlloc(view, n)
        IN  /\ view.cursor + n <= RingMaxCursor
            /\ view' = r.slice
            /\ lastAlloc' = [ kind |-> "alloc", n |-> n, at |-> r.at,
                              count |-> r.slice.count,
                              cursor |-> r.slice.cursor,
                              asked |-> allocHist.sum ]
            /\ allocHist' = [ allocHist EXCEPT !.sum = allocHist.sum + n ]
    /\ UNCHANGED << ring, ringCur >>
    /\ OnlyRing

NextRing ==
    \/ RingInit
    \/ RingBeginFrame
    \/ RingAlloc
    \/ SystemBeginFrame
    \/ ViewAlloc

InitSpecRing ==
    /\ InitRenderer /\ InitUploadIdle /\ InitRing /\ InitSceneIdle /\ InitFrmIdle
    /\ InitCullIdle /\ InitMatIdle /\ InitMiscIdle

SpecRing == InitSpecRing /\ [][NextRing]_vars

\* C9: descriptor-slice overflow fails fast.  A Slice::Alloc(n) that would
\* make cursor exceed count never returns an offset, so cursor <= count in
\* every slice and no returned range [at, at + n) extends past the slice.
C9_CursorWithinCount ==
    /\ ring.ready => \A i \in 0 .. (ring.frames - 1) :
          ring.slices[i].cursor <= ring.slices[i].count
    /\ view.cursor <= view.count
    /\ lastAlloc.kind = "alloc" => lastAlloc.at + lastAlloc.n <= lastAlloc.count

\* C10: descriptor allocation is reproducible per frame.  After
\* BeginFrame(frameIndex), the k-th Alloc returns the sum of the sizes asked
\* before it since that BeginFrame, whatever happened before the BeginFrame.
C10_OffsetsReproducible ==
    lastAlloc.kind = "alloc" => lastAlloc.at = lastAlloc.asked

\* C10's case: a slice that was used in an earlier frame is begun again and
\* allocated from more than once.
C10_Witness ==
    /\ allocHist.dirty
    /\ lastAlloc.kind = "alloc"
    /\ lastAlloc.at > 0
    /\ lastAlloc.n > 0


\* C11: descriptor partitions are disjoint.  After DescriptorRing::Init the
\* index ranges [first, first + count) of two different frame slots share no
\* index, and every range lies inside [0, total).
C11_PartitionsDisjoint ==
    ring.ready =>
        /\ \A i \in 0 .. (ring.frames - 1) :
              /\ 0 <= ring.slices[i].first
              /\ ring.slices[i].first + ring.slices[i].count <= ring.total
        /\ \A i, j \in 0 .. (ring.frames - 1) :
              i # j =>
                 \/ ring.slices[i].first + ring.slices[i].count <= ring.slices[j].first
                 \/ ring.slices[j].first + ring.slices[j].count <= ring.slices[i].first

\* C11's case: several non-empty slices cut from a heap whose size the frame
\* count does not divide.
C11_Witness ==
    /\ ring.ready
    /\ ring.frames >= 2
    /\ ring.perFrameCount >= 1
    /\ ring.total % ring.frames # 0



\* ------------------------------------------------------------------------
\* Claims C12 .. C20
\* ------------------------------------------------------------------------

Zero3 == [ zero |-> TRUE, yaw |-> 0, pitch |-> 0 ]

\* ComputeLightDir: the unit vector (cos yaw cos pitch, sin pitch,
\* sin yaw cos pitch), or (0, 1, 0) when its length is below 1e-6; never the
\* zero vector.
ComputeLightDir(yaw, pitch) == [ zero |-> FALSE, yaw |-> yaw, pitch |-> pitch ]

\* The light argument with the test of m_lightEnabled left out.
LightArg_Unconditional(lightEnabled, L) == L

\* m_lightEnabled ? L : float3{ 0, 0, 0 }, the light argument of bindMVP's
\* callers and of bindMVP_Lines.
LightArg(lightEnabled, L) == IF lightEnabled THEN L ELSE Zero3

\* WriteCB(MVP, cb, light, ...): the lightDir field of the record.
WriteCB(draw, light) == [ draw |-> draw, lightDir |-> light ]

\* The draws of RecordDrawCalls in order, each with the record it binds.
OpaqueRecords(sc, anyBoxVisible) ==
    LET L == ComputeLightDir(sc.m_lightYaw, sc.m_lightPitch)
        light == LightArg(sc.m_lightEnabled, L)
    IN  << WriteCB("ground", light) >>
        \o (IF sc.m_showGrid THEN << WriteCB("grid", light) >> ELSE << >>)
        \o (IF sc.m_showRandomCubes /\ anyBoxVisible
            THEN << WriteCB("boxes", light) >> ELSE << >>)
        \o << WriteCB("axes", light) >>
        \o (IF sc.m_showTestCube THEN << WriteCB("testcube", light) >> ELSE << >>)
        \o (IF sc.m_showPlayerFrustum
            THEN << WriteCB("frustum", light) >> ELSE << >>)

\* The members at their initialisers in Renderer.h.
InitScene ==
    /\ scene = [ keys |-> 0, m_lightEnabled |-> TRUE, m_lightYaw |-> 30,
                 m_lightPitch |-> -70, m_showGrid |-> TRUE,
                 m_showRandomCubes |-> TRUE, m_showTestCube |-> TRUE,
                 m_showPlayerFrustum |-> TRUE ]
    /\ cbLog = << >>

\* OnKeyDown for the toggles G, F, T, R and H.
OnToggleKey ==
    /\ \E k \in { "G", "F", "T", "R", "H" } :
        scene' =
            CASE k = "G" -> [ scene EXCEPT !.m_showGrid = ~@ ]
              [] k = "F" -> [ scene EXCEPT !.m_showPlayerFrustum = ~@ ]
              [] k = "T" -> [ scene EXCEPT !.m_showTestCube = ~@ ]
              [] k = "R" -> [ scene EXCEPT !.m_showRandomCubes = ~@ ]
              [] k = "H" -> [ scene EXCEPT !.m_lightEnabled = ~@ ]
    /\ UNCHANGED cbLog
    /\ OnlyScene

\* OnKeyDown for the light keys J, L (yaw -/+ 0.08) and I, K (pitch +/- 0.08,
\* clamped to +/- 1.35).
OnLightKey ==
    /\ scene.keys < MaxLightKeys
    /\ \E k \in { "J", "L", "I", "K" } :
        scene' =
            CASE k = "J" -> [ scene EXCEPT !.m_lightYaw = @ - 8, !.keys = @ + 1 ]
              [] k = "L" -> [ scene EXCEPT !.m_lightYaw = @ + 8, !.keys = @ + 1 ]
              [] k = "I" -> [ scene EXCEPT
                                !.m_lightPitch = IF @ + 8 > 135 THEN 135 ELSE @ + 8,
                                !.keys = @ + 1 ]
              [] k = "K" -> [ scene EXCEPT
                                !.m_lightPitch = IF @ - 8 < -135 THEN -135 ELSE @ - 8,
                                !.keys = @ + 1 ]
    /\ UNCHANGED cbLog
    /\ OnlyScene

\* RecordDrawCalls: the records of one frame; anyBoxVisible says whether the
\* culling left a box to draw.
RecordDrawCalls ==
    /\ \E anyBoxVisible \in BOOLEAN :
        cbLog' = [ lightEnabled |-> scene.m_lightEnabled,
                   records |-> OpaqueRecords(scene, anyBoxVisible) ]
    /\ UNCHANGED scene
    /\ OnlyScene

NextScene ==
    \/ OnToggleKey
    \/ OnLightKey
    \/ RecordDrawCalls

InitSpecScene ==
    /\ InitRenderer /\ InitUploadIdle /\ InitRingIdle /\ InitScene /\ InitFrmIdle
    /\ InitCullIdle /\ InitMatIdle /\ InitMiscIdle

SpecScene == InitSpecScene /\ [][NextScene]_vars

\* C13: light off means zero light direction.  Every record of a frame
\* recorded while m_lightEnabled was false carries lightDir = (0, 0, 0).
C13_LightOffZeroDir ==
    (cbLog # << >> /\ ~cbLog.lightEnabled) =>
        \A i \in DOMAIN cbLog.records : cbLog.records[i].lightDir = Zero3

\* C13's case: a frame with all six draws recorded with the light off after
\* yaw and pitch were both changed.
C13_Witness ==
    /\ cbLog # << >>
    /\ ~cbLog.lightEnabled
    /\ Len(cbLog.records) = 6
    /\ scene.m_lightYaw # 30
    /\ scene.m_lightPitch # -70
    /\ ~scene.m_lightEnabled


\* ------------------------------------------------------------------------
\* Per-frame resources (FrameResources.h, LinearArena.h)
\*
\* The manager owns a DescriptorSystem (ring, owner "system"; the SRV ring is
\* followed, view is frameRes.descriptors.srvCbvUav) and an UploadAlloc (ua,
\* the version FrameResources.h includes).
\* ------------------------------------------------------------------------

\* LinearArena::Reset that leaves the cursor where it is.
ArenaReset_Keep(arena) == arena

\* LinearArena::Reset.
ArenaReset(arena) == [ arena EXCEPT !.cursor = 0 ]

\* LinearArena::Alloc(size, alignment): the buffer grows when the request
\* does not fit.
ArenaAlloc(arena, size, alignment) ==
    LET aligned == AlignUp(arena.cursor, alignment)
    IN  [ cursor |-> aligned + size,
          capacity |-> IF aligned + size > arena.capacity
                       THEN aligned + size ELSE arena.capacity ]

\* One FrameResources per frame slot.
StaticFrameRes_PerSlot(frameIndex) == frameIndex

\* The object `static FrameResources frameRes` names in a call of
\* BeginFrame(frameIndex): a function-local static, one object for all calls.
StaticFrameRes(frameIndex) == 0

ArenaSizes == { 0, 24, 200000 }
ArenaAlignments == { 1, 16 }

\* After construction of the manager; the static FrameResources as its
\* member initialisers make it.
InitFrm ==
    /\ frm = [ ready |-> FALSE, m_frameCount |-> 0, m_currentFrameIndex |-> 0,
               m_currentFenceValue |-> 0 ]
    /\ frameRes = [ object |-> 0, index |-> 0,
                    frameArena |-> [ cursor |-> 0, capacity |-> FrameArenaCapacity ],
                    passArena |-> [ cursor |-> 0, capacity |-> PassArenaCapacity ] ]
    /\ frmLast = [ kind |-> "none", allocs |-> 0 ]
    /\ ua = [ variant |-> "A", ndebug |-> FALSE, ready |-> FALSE,
              aborted |-> FALSE, totalSize |-> 0, frameCount |-> 0,
              perFrameSize |-> 0, currentFrame |-> 0, head |-> 0,
              allocs |-> 0 ]
    /\ uaLast = [ kind |-> "none" ]
    /\ ring = [ owner |-> "system", ready |-> FALSE, frames |-> 0, total |-> 0,
                perFrameCount |-> 0, slices |-> RingSlices(0, 0) ]
    /\ ringCur = 0
    /\ view = [ first |-> 0, count |-> 0, cursor |-> 0 ]
    /\ lastAlloc = [ kind |-> "none" ]
    /\ allocHist = [ sum |-> 0, dirty |-> FALSE ]

\* FrameResourceManager::Init(device, frameCount) with the default counts:
\* m_descriptors.Init(...) && m_uploadAlloc.Init(device, uploadSize).
FrmInit ==
    /\ ~frm.ready
    /\ frm.m_frameCount = 0
    /\ \E frameCount \in 1 .. FrmMaxFrames, descOk \in BOOLEAN,
          uploadOk \in BOOLEAN :
        /\ frm' = [ frm EXCEPT !.m_frameCount = frameCount,
                               !.ready = descOk /\ uploadOk ]
        /\ ring' = IF descOk
                   THEN [ ring EXCEPT !.ready = TRUE,
                                      !.frames = frameCount,
                                      !.total = DefaultSrvCount,
                                      !.perFrameCount = DefaultSrvCount \div frameCount,
                                      !.slices = RingSlices(DefaultSrvCount, frameCount) ]
                   ELSE [ ring EXCEPT !.frames = frameCount,
                                      !.total = DefaultSrvCount ]
        /\ ua' = IF descOk /\ uploadOk
                 THEN [ ua EXCEPT !.ready = TRUE,
                                  !.totalSize = DefaultUploadSize,
                                  !.frameCount = DefaultUploadFrames,
                                  !.perFrameSize =
                                      UploadPerFrameSize("A", DefaultUploadSize,
                                                         DefaultUploadFrames),
                                  !.currentFrame = 0,
                                  !.head = 0 ]
                 ELSE ua
    /\ frmLast' = [ kind |-> "init", allocs |-> 0 ]
    /\ UNCHANGED << frameRes, uaLast, ringCur, view, lastAlloc, allocHist >>
    /\ UNCHANGED << rendererVars, sceneVars, cullVars, matVars, miscVars >>

\* FrameResourceManager::BeginFrame(frameIndex, fenceValue).  The call of
\* m_uploadAlloc is commented out in the source: ua is left alone.
FrmBeginFrame ==
    /\ frm.ready
    /\ \E frameIndex \in 0 .. (frm.m_frameCount - 1),
          fenceValue \in 1 .. FrmMaxFence :
        /\ frm' = [ frm EXCEPT !.m_currentFrameIndex = frameIndex,
                               !.m_currentFenceValue = fenceValue ]
        /\ frameRes' = [ object |-> StaticFrameRes(frameIndex),
                         index |-> frameIndex,
                         frameArena |-> ArenaReset(frameRes.frameArena),
                         passArena |-> ArenaReset(frameRes.passArena) ]
        /\ ring' = [ ring EXCEPT !.slices[frameIndex] = SliceReset(@) ]
        /\ view' = SliceReset(ring.slices[frameIndex])
        /\ ringCur' = frameIndex
        /\ frmLast' = [ kind |-> "begin", allocs |-> 0,
                        frameIndex |-> frameIndex,
                        again |-> frmLast.kind \in { "begin", "alloc" },
                        prevObject |-> frameRes.object,
                        prevIndex |-> frameRes.index,
                        dirty |-> frameRes.frameArena.cursor > 0
                                    /\ frameRes.passArena.cursor > 0 ]
    /\ UNCHANGED << ua, uaLast, lastAlloc, allocHist >>
    /\ UNCHANGED << rendererVars, sceneVars, cullVars, matVars, miscVars >>

\* LinearArena::Alloc on frameArena or passArena of the bundle.
FrmArenaAlloc ==
    /\ frmLast.kind \in { "begin", "alloc" }
    /\ frmLast.allocs < FrmMaxAllocs
    /\ \E which \in { "frameArena", "passArena" }, size \in ArenaSizes,
          alignment \in ArenaAlignments :
        frameRes' = [ frameRes EXCEPT
                        ![which] = ArenaAlloc(frameRes[which], size, alignment) ]
    /\ frmLast' = [ frmLast EXCEPT !.kind = "alloc", !.allocs = @ + 1 ]
    /\ UNCHANGED << frm, uploadVars, ringVars >>
    /\ UNCHANGED << rendererVars, sceneVars, cullVars, matVars, miscVars >>

\* GetUploadAlloc().Allocate(size) with the default alignment 256.
FrmUploadAllocate ==
    /\ frmLast.kind \in { "begin", "alloc" }
    /\ ua.allocs < UploadMaxAllocs
    /\ \E size \in { 256 } :
        LET r == UploadAllocateResult(ua, size, 256)
        IN  /\ ua' = [ ua EXCEPT !.head = r.head, !.allocs = ua.allocs + 1 ]
            /\ uaLast' = [ kind |-> "alloc", size |-> size,
                           aligned |-> AlignUp(ua.head, 256),
                           result |-> r.kind, offset |-> r.offset,
                           frameStart |-> UploadFrameStart(ua),
                           frameEnd |-> UploadFrameEnd(ua) ]
    /\ frmLast' = [ frmLast EXCEPT !.kind = "alloc" ]
    /\ UNCHANGED << frm, frameRes, ringVars >>
    /\ UNCHANGED << rendererVars, sceneVars, cullVars, matVars, miscVars >>

NextFrm ==
    \/ FrmInit
    \/ FrmBeginFrame
    \/ FrmArenaAlloc
    \/ FrmUploadAllocate

InitSpecFrm ==
    /\ InitRenderer /\ InitSceneIdle /\ InitFrm /\ InitCullIdle /\ InitMatIdle /\ InitMiscIdle

SpecFrm == InitSpecFrm /\ [][NextFrm]_vars

\* C14: BeginFrame rewinds the upload ring.  After
\* FrameResourceManager::BeginFrame(frameIndex, fenceValue) the upload
\* allocator's active region is frameIndex and its cursor is
\* frameIndex * perFrameSize.
C14_BeginFrameRewindsUpload ==
    frmLast.kind = "begin" =>
        /\ ua.currentFrame = frmLast.frameIndex
        /\ ua.head = frmLast.frameIndex * ua.perFrameSize

\* C15: BeginFrame resets the arenas unconditionally.  After every
\* FrameResourceManager::BeginFrame(frameIndex, fenceValue) the used size of
\* the frame arena and of the pass arena is 0 and the bundle's index is
\* frameIndex.
C15_BeginFrameResetsArenas ==
    frmLast.kind = "begin" =>
        /\ frameRes.frameArena.cursor = 0
        /\ frameRes.passArena.cursor = 0
        /\ frameRes.index = frmLast.frameIndex

\* C15's case: BeginFrame for the last frame index while both arenas are in
\* use and the pass arena has grown beyond its first capacity.
C15_Witness ==
    /\ frmLast.kind = "begin"
    /\ frmLast.dirty
    /\ frmLast.frameIndex = 2
    /\ frameRes.passArena.capacity > PassArenaCapacity


\* C16: per-frame control flow order.  Every Render call that returns went,
\* once each and in this order, through: reset of the slot's command
\* allocator, BeginFrame of the per-frame resources, shadow pass, opaque pass,
\* HUD pass, submit, present, signal, advance of the frame index.
C16_FrameStepOrder ==
    (lastCall = << "Render" >> /\ op = "none" /\ shell = "loop") =>
        renderSteps = << "ResetAllocator", "BeginFrame", "ShadowPass",
                         "OpaquePass", "HUDPass", "Submit", "Present",
                         "Signal", "AdvanceFrameIndex" >>

Abs(x) == IF x < 0 THEN -x ELSE x
Dot3(a, b) == a[1] * b[1] + a[2] * b[2] + a[3] * b[3]
Add3(a, b) == << a[1] + b[1], a[2] + b[2], a[3] + b[3] >>
Sub3(a, b) == << a[1] - b[1], a[2] - b[2], a[3] - b[3] >>
Mul3(a, k) == << a[1] * k, a[2] * k, a[3] * k >>
Neg3(a) == << -a[1], -a[2], -a[3] >>

cross3(a, b) ==
    << a[2] * b[3] - a[3] * b[2],
       a[3] * b[1] - a[1] * b[3],
       a[1] * b[2] - a[2] * b[1] >>

makePlane(a, b, c) ==
    LET n == cross3(Sub3(b, a), Sub3(c, a))
    IN  [ n |-> n, d |-> -Dot3(n, a) ]

\* The loop body at the end of buildWorldFrustum.  ctr8 is the sum of the
\* 8 corners, eight times the centroid, and s8 eight times s.
OrientPlane(p, ctr8) ==
    LET s8 == Dot3(p.n, ctr8) + 8 * p.d
    IN  IF s8 > 0 THEN [ n |-> Neg3(p.n), d |-> -p.d ] ELSE p

\* camera_to_world for unit, perpendicular forward and up: r = up x f,
\* u = f x r.
camera_to_world(pos, forward, up) ==
    LET r == cross3(up, forward)
    IN  [ right |-> r, up |-> cross3(forward, r), fwd |-> forward, pos |-> pos ]

\* t stands for tan(fovY / 2).
buildWorldFrustum(CW, t, aspect, zn, zf) ==
    LET nh == t * zn
        nw == nh * aspect
        fh == t * zf
        fw == fh * aspect
        nc == Add3(CW.pos, Mul3(CW.fwd, zn))
        fc == Add3(CW.pos, Mul3(CW.fwd, zf))
        ntl == Sub3(Add3(nc, Mul3(CW.up, nh)), Mul3(CW.right, nw))
        ntr == Add3(Add3(nc, Mul3(CW.up, nh)), Mul3(CW.right, nw))
        nbl == Sub3(Sub3(nc, Mul3(CW.up, nh)), Mul3(CW.right, nw))
        nbr == Add3(Sub3(nc, Mul3(CW.up, nh)), Mul3(CW.right, nw))
        ftl == Sub3(Add3(fc, Mul3(CW.up, fh)), Mul3(CW.right, fw))
        ftr == Add3(Add3(fc, Mul3(CW.up, fh)), Mul3(CW.right, fw))
        fbl == Sub3(Sub3(fc, Mul3(CW.up, fh)), Mul3(CW.right, fw))
        fbr == Add3(Sub3(fc, Mul3(CW.up, fh)), Mul3(CW.right, fw))
        c == << ntl, ntr, nbl, nbr, ftl, ftr, fbl, fbr >>
        raw == << makePlane(nbl, ntl, ftl),      \* Left
                  makePlane(nbr, fbr, ftr),      \* Right
                  makePlane(nbl, fbl, fbr),      \* Bottom
                  makePlane(ntl, ftl, ftr),      \* Top
                  makePlane(ntl, ntr, nbr),      \* Near
                  makePlane(ftr, ftl, fbl) >>    \* Far
        ctr8 == << ntl[1] + ntr[1] + nbl[1] + nbr[1] + ftl[1] + ftr[1] + fbl[1] + fbr[1],
                   ntl[2] + ntr[2] + nbl[2] + nbr[2] + ftl[2] + ftr[2] + fbl[2] + fbr[2],
                   ntl[3] + ntr[3] + nbl[3] + nbr[3] + ftl[3] + ftr[3] + fbl[3] + fbr[3] >>
    IN  [ built |-> TRUE,
          p |-> [ i \in 1..6 |-> OrientPlane(raw[i], ctr8) ],
          c |-> c,
          ctr8 |-> ctr8 ]

\* The test without fabs: r from the signed components of n.
aabbIntersectsFrustum_NoFabs(b, F) ==
    \A i \in 1..6 :
        LET n == F.p[i].n
            s == Dot3(n, b.center) + F.p[i].d
            r == n[1] * b.extents[1] + n[2] * b.extents[2] + n[3] * b.extents[3]
        IN  ~(s > r)

aabbIntersectsFrustum(b, F) ==
    \A i \in 1..6 :
        LET n == F.p[i].n
            s == Dot3(n, b.center) + F.p[i].d
            r == Abs(n[1]) * b.extents[1] + Abs(n[2]) * b.extents[2]
                 + Abs(n[3]) * b.extents[3]
        IN  ~(s > r)

\* The 8 corners of a box, as addBox lists them.
BoxCorners(b) ==
    LET c == b.center
        e == b.extents
    IN  { << c[1] - e[1], c[2] - e[2], c[3] - e[3] >>, << c[1] + e[1], c[2] - e[2], c[3] - e[3] >>,
          << c[1] - e[1], c[2] + e[2], c[3] - e[3] >>, << c[1] + e[1], c[2] + e[2], c[3] - e[3] >>,
          << c[1] - e[1], c[2] - e[2], c[3] + e[3] >>, << c[1] + e[1], c[2] - e[2], c[3] + e[3] >>,
          << c[1] - e[1], c[2] + e[2], c[3] + e[3] >>, << c[1] + e[1], c[2] + e[2], c[3] + e[3] >> }

\* Camera poses: position, and (forward, up) looking along +z, along +x
\* and straight down.
CullPositions == { << 0, 0, 0 >>, << 1, -2, 3 >> }
CullOrientations ==
    { << << 0, 0, 1 >>, << 0, 1, 0 >> >>,
      << << 1, 0, 0 >>, << 0, 1, 0 >> >>,
      << << 0, -1, 0 >>, << 0, 0, 1 >> >> }
CullTans == { 1, 2 }
CullAspects == { 1, 2 }
CullNears == { 1, 2 }
CullFars == { 3, 4 }
BoxCoords == { -4, 0, 3 }
BoxExtents == { << 1, 1, 1 >>, << 2, 1, 3 >> }

InitCull ==
    /\ frustum = [ built |-> FALSE ]
    /\ cullLast = [ kind |-> "none" ]

\* Fr6 F{}; buildWorldFrustum(F, m_playerCam.GetCameraToWorld(), ...)
BuildWorldFrustum ==
    /\ \E pos \in CullPositions, o \in CullOrientations, t \in CullTans,
          aspect \in CullAspects, zn \in CullNears, zf \in CullFars :
           frustum' = buildWorldFrustum(camera_to_world(pos, o[1], o[2]),
                                        t, aspect, zn, zf)
    /\ cullLast' = [ kind |-> "none" ]
    /\ OnlyCull

\* One iteration of  for (bx : m_debugBoxes)
\*     if (aabbIntersectsFrustum(bx.aabb, F)) addBox(...)
CullBox ==
    /\ frustum.built
    /\ \E x \in BoxCoords, y \in BoxCoords, z \in BoxCoords, e \in BoxExtents :
           LET b == [ center |-> << x, y, z >>, extents |-> e ]
           IN  cullLast' = [ kind |-> "cull", box |-> b,
                             drawn |-> aabbIntersectsFrustum(b, frustum) ]
    /\ UNCHANGED frustum
    /\ OnlyCull

NextCull == BuildWorldFrustum \/ CullBox

InitSpecCull ==
    /\ InitRenderer /\ InitUploadIdle /\ InitRingIdle /\ InitSceneIdle
    /\ InitFrmIdle /\ InitCull /\ InitMatIdle /\ InitMiscIdle

SpecCull == InitSpecCull /\ [][NextCull]_vars

PlaneDistance(p, x) == Dot3(p.n, x) + p.d

\* C18: culling agrees with brute-force plane testing.  A tested box is
\* left out exactly when, for one of the 6 planes, all 8 of its corners lie
\* strictly in front of the plane, which is exactly when the centre's
\* signed distance exceeds |n.x|*e.x + |n.y|*e.y + |n.z|*e.z; so a box with
\* all corners behind all 6 planes is drawn and a box strictly in front of
\* one plane is not.
C18_CullingIsBruteForce ==
    (cullLast.kind = "cull") =>
        LET b == cullLast.box
            front(i) == \A q \in BoxCorners(b) : PlaneDistance(frustum.p[i], q) > 0
            exceeds(i) ==
                PlaneDistance(frustum.p[i], b.center)
                    > Abs(frustum.p[i].n[1]) * b.extents[1]
                      + Abs(frustum.p[i].n[2]) * b.extents[2]
                      + Abs(frustum.p[i].n[3]) * b.extents[3]
            inside == \A i \in 1..6 : \A q \in BoxCorners(b) :
                          PlaneDistance(frustum.p[i], q) <= 0
        IN  /\ (~cullLast.drawn) <=> (\E i \in 1..6 : front(i))
            /\ (~cullLast.drawn) <=> (\E i \in 1..6 : exceeds(i))
            /\ inside => cullLast.drawn

\* A box was culled by a plane that has a negative normal component.
C18_Witness ==
    /\ cullLast.kind = "cull"
    /\ ~cullLast.drawn
    /\ \E i \in 1..6 :
           /\ \A q \in BoxCorners(cullLast.box) : PlaneDistance(frustum.p[i], q) > 0
           /\ \E k \in 1..3 : frustum.p[i].n[k] < 0

\* C19: frustum planes point inward.  In every frustum built, the centroid
\* of the 8 corners has a positive signed distance to each of the 6 planes.
C19_PlanesPointInward ==
    frustum.built =>
        \A i \in 1..6 : Dot3(frustum.p[i].n, frustum.ctr8) + 8 * frustum.p[i].d > 0


\* ---------------------------------------------------------------------
\* Matrix storage helpers of SolMath.h.  A float4x4 is 4 rows m[1..4] of
\* 4 components (x, y, z, w) = [1..4]; a float[16] is a sequence whose
\* element i + 1 is out16[i].
\* ---------------------------------------------------------------------
store_row_major(m) ==
    << m[1][1], m[1][2], m[1][3], m[1][4],
       m[2][1], m[2][2], m[2][3], m[2][4],
       m[3][1], m[3][2], m[3][3], m[3][4],
       m[4][1], m[4][2], m[4][3], m[4][4] >>

\* store_column_major writing in row order.
store_column_major_RowOrder(m) ==
    << m[1][1], m[1][2], m[1][3], m[1][4],
       m[2][1], m[2][2], m[2][3], m[2][4],
       m[3][1], m[3][2], m[3][3], m[3][4],
       m[4][1], m[4][2], m[4][3], m[4][4] >>

store_column_major(m) ==
    << m[1][1], m[2][1], m[3][1], m[4][1],
       m[1][2], m[2][2], m[3][2], m[4][2],
       m[1][3], m[2][3], m[3][3], m[4][3],
       m[1][4], m[2][4], m[3][4], m[4][4] >>

load_row_major(in16) ==
    << << in16[1], in16[2], in16[3], in16[4] >>,
       << in16[5], in16[6], in16[7], in16[8] >>,
       << in16[9], in16[10], in16[11], in16[12] >>,
       << in16[13], in16[14], in16[15], in16[16] >> >>

load_column_major(in16) ==
    << << in16[1], in16[5], in16[9], in16[13] >>,
       << in16[2], in16[6], in16[10], in16[14] >>,
       << in16[3], in16[7], in16[11], in16[15] >>,
       << in16[4], in16[8], in16[12], in16[16] >> >>

m_identity ==
    << << 1, 0, 0, 0 >>, << 0, 1, 0, 0 >>, << 0, 0, 1, 0 >>, << 0, 0, 0, 1 >> >>

\* The matrix fields of the record WriteCB fills; lightVP.null stands for
\* the default argument nullptr.
WriteCB_Matrices(MrowMajor, lightVP) ==
    [ kind |-> "written",
      mvp |-> store_column_major(MrowMajor),
      lightVP |-> IF ~lightVP.null THEN store_column_major(lightVP.m)
                  ELSE store_column_major(m_identity) ]

\* Input matrices: m[r][c] = a*r + b*c + k, not symmetric when a # b, and
\* the identity.
MatOf(a, b, k) == [ r \in 1..4 |-> [ c \in 1..4 |-> a * r + b * c + k ] ]
Matrices ==
    { MatOf(a, b, k) : a \in 0..MatMaxCoef, b \in 0..MatMaxCoef, k \in 0..1 }
        \cup { m_identity }
LightArgs ==
    { [ null |-> TRUE, m |-> m_identity ] }
        \cup { [ null |-> FALSE, m |-> m ] : m \in { MatOf(1, 2, 0), MatOf(0, 1, 1) } }

InitMat ==
    /\ mat = [ kind |-> "none" ]
    /\ cbMat = [ kind |-> "none" ]

\* A caller has a float4x4 in hand.
MatPick ==
    /\ \E m \in Matrices :
           mat' = [ kind |-> "picked", m |-> m, order |-> "none", out16 |-> << >>,
                    loadOrder |-> "none", loaded |-> << >> ]
    /\ cbMat' = [ kind |-> "none" ]
    /\ OnlyMat

StoreColumnMajor ==
    /\ mat.kind # "none"
    /\ mat' = [ mat EXCEPT !.kind = "stored", !.order = "column",
                           !.out16 = store_column_major(mat.m),
                           !.loadOrder = "none", !.loaded = << >> ]
    /\ UNCHANGED cbMat
    /\ OnlyMat

StoreRowMajor ==
    /\ mat.kind # "none"
    /\ mat' = [ mat EXCEPT !.kind = "stored", !.order = "row",
                           !.out16 = store_row_major(mat.m),
                           !.loadOrder = "none", !.loaded = << >> ]
    /\ UNCHANGED cbMat
    /\ OnlyMat

LoadColumnMajor ==
    /\ mat.kind \in { "stored", "loaded" }
    /\ mat' = [ mat EXCEPT !.kind = "loaded", !.loadOrder = "column",
                           !.loaded = load_column_major(mat.out16) ]
    /\ UNCHANGED cbMat
    /\ OnlyMat

LoadRowMajor ==
    /\ mat.kind \in { "stored", "loaded" }
    /\ mat' = [ mat EXCEPT !.kind = "loaded", !.loadOrder = "row",
                           !.loaded = load_row_major(mat.out16) ]
    /\ UNCHANGED cbMat
    /\ OnlyMat

\* WriteCB(MVP, cb, ..., &lightMVP) and WriteCB(MVP, cb, ..., nullptr).
WriteCBMatrices ==
    /\ mat.kind # "none"
    /\ \E lv \in LightArgs :
           cbMat' = WriteCB_Matrices(mat.m, lv) @@ [ M |-> mat.m, lightArg |-> lv ]
    /\ UNCHANGED mat
    /\ OnlyMat

NextMat ==
    \/ MatPick
    \/ StoreColumnMajor
    \/ StoreRowMajor
    \/ LoadColumnMajor
    \/ LoadRowMajor
    \/ WriteCBMatrices

InitSpecMat ==
    /\ InitRenderer /\ InitUploadIdle /\ InitRingIdle /\ InitSceneIdle
    /\ InitFrmIdle /\ InitCullIdle /\ InitMat /\ InitMiscIdle

SpecMat == InitSpecMat /\ [][NextMat]_vars

\* C20: column-major round trip.  A matrix stored by store_column_major and
\* loaded by load_column_major is the original in all 16 components; the
\* column-major array holds m[r][c] at [4*c + r], the transpose of what
\* store_row_major writes; and both matrices of a record written by WriteCB
\* are in that order (lightVP being the identity when none is passed).
C20_ColumnMajorRoundTrip ==
    /\ (mat.kind = "loaded" /\ mat.order = "column" /\ mat.loadOrder = "column")
           => \A r \in 1..4 : \A c \in 1..4 : mat.loaded[r][c] = mat.m[r][c]
    /\ (mat.kind \in { "stored", "loaded" } /\ mat.order = "column")
           => \A r \in 0..3 : \A c \in 0..3 :
                  /\ mat.out16[4 * c + r + 1] = mat.m[r + 1][c + 1]
                  /\ mat.out16[4 * c + r + 1] = store_row_major(mat.m)[4 * r + c + 1]
    /\ (cbMat.kind = "written")
           => \A r \in 0..3 : \A c \in 0..3 :
                  /\ cbMat.mvp[4 * c + r + 1] = cbMat.M[r + 1][c + 1]
                  /\ cbMat.lightVP[4 * c + r + 1] =
                         IF cbMat.lightArg.null
                         THEN (IF r = c THEN 1 ELSE 0)
                         ELSE cbMat.lightArg.m[r + 1][c + 1]

\* A matrix that differs from its transpose went through the column-major
\* round trip and was written to a record with a light matrix.
C20_Witness ==
    /\ mat.kind = "loaded" /\ mat.order = "column" /\ mat.loadOrder = "column"
    /\ mat.m[1][2] # mat.m[2][1]
    /\ cbMat.kind = "written"
    /\ ~cbMat.lightArg.null


(***************************************************************************)
(* The culling-volume keys of Renderer::OnKeyDown.  Distances are in units *)
(* of 1/10000: 0.01 is 100, 0.02 is 200, 0.1 is 1000, 5.0 is 50000 and     *)
(* 500.0 is 5000000; x * 1.25f is x * 5 \div 4 and x * 0.8f is x * 4 \div 5.*)
(***************************************************************************)
MaxCullKeys == 21

CullKeyNames == { "O", "VK_OEM_PLUS", "VK_OEM_MINUS", "0", "9" }

\* VK_OEM_PLUS without the clamp of the far plane at 500.
CullKey_NoCap(c, k) ==
    CASE k = "O" -> [c EXCEPT !.m_useCullOverride = ~c.m_useCullOverride]
      [] k = "VK_OEM_PLUS" ->
            LET nf  == (c.m_cullFar * 5) \div 4
                far == nf
            IN  [c EXCEPT !.m_cullFar = IF far <= c.m_cullNear + 100
                                        THEN c.m_cullNear + 100 ELSE far]
      [] k = "VK_OEM_MINUS" ->
            LET nf == (c.m_cullFar * 4) \div 5
            IN  [c EXCEPT !.m_cullFar = IF nf < c.m_cullNear + 200
                                        THEN c.m_cullNear + 200 ELSE nf]
      [] k = "0" ->
            LET nn  == (c.m_cullNear * 5) \div 4
                nn2 == IF nn > c.m_cullFar - 200 THEN c.m_cullFar - 200 ELSE nn
            IN  [c EXCEPT !.m_cullNear = IF nn2 < 100 THEN 100 ELSE nn2]
      [] k = "9" ->
            LET nn == (c.m_cullNear * 4) \div 5
            IN  [c EXCEPT !.m_cullNear = IF nn < 100 THEN 100 ELSE nn]

\* The cases 'O', VK_OEM_PLUS, VK_OEM_MINUS, '0' and '9' of OnKeyDown.
CullKey(c, k) ==
    CASE k = "O" -> [c EXCEPT !.m_useCullOverride = ~c.m_useCullOverride]
      [] k = "VK_OEM_PLUS" ->
            LET nf  == (c.m_cullFar * 5) \div 4
                far == IF nf > 5000000 THEN 5000000 ELSE nf
            IN  [c EXCEPT !.m_cullFar = IF far <= c.m_cullNear + 100
                                        THEN c.m_cullNear + 100 ELSE far]
      [] k = "VK_OEM_MINUS" ->
            LET nf == (c.m_cullFar * 4) \div 5
            IN  [c EXCEPT !.m_cullFar = IF nf < c.m_cullNear + 200
                                        THEN c.m_cullNear + 200 ELSE nf]
      [] k = "0" ->
            LET nn  == (c.m_cullNear * 5) \div 4
                nn2 == IF nn > c.m_cullFar - 200 THEN c.m_cullFar - 200 ELSE nn
            IN  [c EXCEPT !.m_cullNear = IF nn2 < 100 THEN 100 ELSE nn2]
      [] k = "9" ->
            LET nn == (c.m_cullNear * 4) \div 5
            IN  [c EXCEPT !.m_cullNear = IF nn < 100 THEN 100 ELSE nn]

\* Renderer.h's member initialisers and the two SetLens calls of Initialize.
InitSpecCullKeys ==
    /\ InitRenderer /\ InitUploadIdle /\ InitRingIdle /\ InitSceneIdle
    /\ InitFrmIdle /\ InitCullIdle /\ InitMatIdle
    /\ cullKeys = [ presses |-> 0,
                    m_useCullOverride |-> TRUE,
                    m_cullNear |-> 1000, m_cullFar |-> 50000,
                    m_camera |-> [ nearZ |-> 1000, farZ |-> 5000000 ],
                    m_playerCam |-> [ nearZ |-> 1000, farZ |-> 50000 ] ]
    /\ mstack = [ top |-> 0 ]
    /\ msLast = [ op |-> "none" ]

OnCullKey ==
    /\ cullKeys.presses < MaxCullKeys
    /\ \E k \in CullKeyNames :
          cullKeys' = [ CullKey(cullKeys, k) EXCEPT !.presses = @ + 1 ]
    /\ UNCHANGED << mstack, msLast >>
    /\ OnlyMisc

SpecCullKeys == InitSpecCullKeys /\ [][OnCullKey]_vars

(***************************************************************************)
(* MatStack and MatPushGuard of SolMath.h.  A float4x4 is modelled by the  *)
(* translations along one axis: the matrix is the offset, m_identity() is  *)
(* 0 and m_mul adds.  A slot of the array not written yet is "uninit".     *)
(***************************************************************************)
MAX_DEPTH == 64
MsMaxOps == 5
MsMaxGuards == 2

\* Depths a MatStack is started at: top pushes of the identity from empty.
MsInitTops == { 0, 1, MAX_DEPTH - 2, MAX_DEPTH - 1 }

InitSpecMs ==
    /\ InitRenderer /\ InitUploadIdle /\ InitRingIdle /\ InitSceneIdle
    /\ InitFrmIdle /\ InitCullIdle /\ InitMatIdle
    /\ cullKeys = [ presses |-> 0 ]
    /\ \E t \in MsInitTops :
          mstack = [ top    |-> t,
                     stack  |-> [ i \in 0 .. MAX_DEPTH - 1 |->
                                    IF i <= t THEN 0 ELSE "uninit" ],
                     guards |-> << >>,
                     ops    |-> 0 ]
    /\ msLast = [ op |-> "none" ]

\* bool push()
MsPush ==
    /\ mstack.ops < MsMaxOps
    /\ LET full == mstack.top + 1 >= MAX_DEPTH
       IN  /\ mstack' = IF full
                        THEN [mstack EXCEPT !.ops = @ + 1]
                        ELSE [mstack EXCEPT
                                !.stack[mstack.top + 1] = mstack.stack[mstack.top],
                                !.top = @ + 1,
                                !.ops = @ + 1]
           /\ msLast' = [ op |-> "push", ok |-> ~full,
                          top |-> mstack.top, stack |-> mstack.stack ]
    /\ UNCHANGED cullKeys
    /\ OnlyMisc

\* bool pushLocal(const float4x4& local)
MsPushLocal ==
    /\ mstack.ops < MsMaxOps
    /\ \E local \in { 1, 2 } :
          LET full == mstack.top + 1 >= MAX_DEPTH
          IN  /\ mstack' = IF full
                           THEN [mstack EXCEPT !.ops = @ + 1]
                           ELSE [mstack EXCEPT
                                   !.stack[mstack.top + 1] =
                                       mstack.stack[mstack.top] + local,
                                   !.top = @ + 1,
                                   !.ops = @ + 1]
              /\ msLast' = [ op |-> "pushLocal", ok |-> ~full,
                             top |-> mstack.top, stack |-> mstack.stack ]
    /\ UNCHANGED cullKeys
    /\ OnlyMisc

\* void pop()
MsPop ==
    /\ mstack.ops < MsMaxOps
    /\ mstack' = [mstack EXCEPT
                    !.top = IF mstack.top > 0 THEN mstack.top - 1 ELSE mstack.top,
                    !.ops = @ + 1]
    /\ msLast' = [ op |-> "pop", top |-> mstack.top, stack |-> mstack.stack ]
    /\ UNCHANGED cullKeys
    /\ OnlyMisc

\* void reset()
MsReset ==
    /\ mstack.ops < MsMaxOps
    /\ mstack' = [mstack EXCEPT !.top = 0, !.stack[0] = 0, !.ops = @ + 1]
    /\ msLast' = [ op |-> "reset", top |-> mstack.top, stack |-> mstack.stack ]
    /\ UNCHANGED cullKeys
    /\ OnlyMisc

\* MatPushGuard(MatStack& s, const float4x4* local = nullptr): savedTop is
\* s.top, then pushLocal(*local) or push(), whose result is dropped.
\* ctorTop records the depth at construction for the claims.
GuardEnter ==
    /\ mstack.ops < MsMaxOps
    /\ Len(mstack.guards) < MsMaxGuards
    /\ \E local \in { 0, 1 } :
          LET full == mstack.top + 1 >= MAX_DEPTH
              g    == [ savedTop |-> mstack.top, ctorTop |-> mstack.top ]
          IN  /\ mstack' = IF full
                           THEN [mstack EXCEPT !.guards = Append(@, g),
                                               !.ops = @ + 1]
                           ELSE [mstack EXCEPT
                                   !.stack[mstack.top + 1] =
                                       mstack.stack[mstack.top] + local,
                                   !.top = @ + 1,
                                   !.guards = Append(@, g),
                                   !.ops = @ + 1]
              /\ msLast' = [ op |-> "guard_enter", ok |-> ~full,
                             top |-> mstack.top, stack |-> mstack.stack ]
    /\ UNCHANGED cullKeys
    /\ OnlyMisc

\* The destructor as a pop() of the stack.
GuardExit_Pop ==
    /\ mstack.guards # << >>
    /\ LET g == mstack.guards[Len(mstack.guards)]
       IN  /\ mstack' = [mstack EXCEPT
                           !.top = IF mstack.top > 0 THEN mstack.top - 1
                                   ELSE mstack.top,
                           !.guards = SubSeq(@, 1, Len(@) - 1)]
           /\ msLast' = [ op |-> "guard_exit", ctorTop |-> g.ctorTop,
                          top |-> mstack.top, stack |-> mstack.stack ]
    /\ UNCHANGED cullKeys
    /\ OnlyMisc

\* ~MatPushGuard() { ms.top = savedTop; } of the guard constructed last.
GuardExit ==
    /\ mstack.guards # << >>
    /\ LET g == mstack.guards[Len(mstack.guards)]
       IN  /\ mstack' = [mstack EXCEPT
                           !.top = g.savedTop,
                           !.guards = SubSeq(@, 1, Len(@) - 1)]
           /\ msLast' = [ op |-> "guard_exit", ctorTop |-> g.ctorTop,
                          top |-> mstack.top, stack |-> mstack.stack ]
    /\ UNCHANGED cullKeys
    /\ OnlyMisc

NextMs ==
    \/ MsPush
    \/ MsPushLocal
    \/ MsPop
    \/ MsReset
    \/ GuardEnter
    \/ GuardExit

SpecMs == InitSpecMs /\ [][NextMs]_vars

\* ---------------------------------------------------------------------
\* Claims C21 .. C30
\* ---------------------------------------------------------------------

\* C21: the arena is a bump allocator over a fixed buffer.  The capacity of
\* each arena of the bundle stays what the constructor made it, whatever
\* Alloc and Reset calls are made, also when a request exceeds what is
\* left.
C21_ArenaCapacityFixed ==
    /\ frameRes.frameArena.capacity = FrameArenaCapacity
    /\ frameRes.passArena.capacity = PassArenaCapacity


\* The renderer with the progress its scheduling gives: the GPU executes the
\* head of its queue (the hypothesis of C22), and the one CPU thread, which
\* is inside a call, takes the call's next step.
Fairness ==
    /\ WF_vars(GpuExecute)
    /\ WF_vars(GpuSignal)
    /\ WF_vars(FenceBlocks)
    /\ WF_vars(FinishInitialize)
    /\ WF_vars(FinishRender)
    /\ WF_vars(FinishResize)
    /\ WF_vars(FinishShutdown)
    /\ WF_vars(FinishDestroy)

SpecLive == Init /\ [][Next]_vars /\ Fairness

C24_ShadowReadableWhenSampled ==
    (\E i \in DOMAIN frameLog : frameLog[i] = "OpaquePass")
        => m_shadowState = PIXEL_SHADER_RESOURCE


\* C25: descriptor handles address the allocated slots.  After an Alloc(n)
\* that stays within count and returned the offset at, the handles
\* CPU(at + i) and GPU(at + i), 0 <= i < n, address slot first + at + i and
\* lie inside [first, first + count).
C25_HandlesAddressAllocatedSlots ==
    (lastAlloc.kind = "alloc" /\ lastAlloc.cursor <= lastAlloc.count) =>
        LET slice == IF ring.owner = "system" THEN view ELSE ring.slices[ringCur]
        IN  \A i \in 0 .. (lastAlloc.n - 1) :
                /\ SliceHandle(slice, lastAlloc.at + i) = slice.first + lastAlloc.at + i
                /\ SliceHandle(slice, lastAlloc.at + i) < slice.first + slice.count


C27_EventsReachLiveRenderer ==
    wndMsg.forwarded => wndMsg.renderer = "object"


\* C28: Shutdown is idempotent.  Once the explicit Shutdown has returned,
\* the Shutdown that the destructor runs signals nothing, waits for nothing
\* and changes no member: the queue and the event stay null, no buffer is
\* held, and the renderer ends in that same released state.
C28_ShutdownIdempotent ==
    /\ [](shell \in { "stopped", "exited" } =>
            /\ ~m_cmdQueue
            /\ ~m_fenceEvent
            /\ m_transientUploads = { }
            /\ gpuQueue = << >>
            /\ op = "none"
            /\ wait = "none")
    /\ [][shell = "stopped" =>
            /\ shell' = "exited"
            /\ UNCHANGED << signals, gpuQueue, m_fenceValue, fenceCompleted,
                            m_cmdQueue, m_fenceEvent, m_transientUploads,
                            lastWait, op, wait >>]_vars

\* C28 witness: the destructor's Shutdown has run after frames were
\* rendered and the explicit Shutdown had waited for the GPU.
C28_Witness ==
    /\ shell = "exited"
    /\ lastCall = << "DestroyRenderer" >>
    /\ lastWait.op = "Shutdown"
    /\ Len(signals) >= 3


\* C29: after any sequence of presses of 'O', plus, minus, '0' and '9' from
\* cullNear 0.1 and cullFar 5.0, 0.01 <= cullNear < cullFar <= 500 holds, and
\* the near and far planes of both cameras are what Initialize set.
C29_CullingVolumeWellFormed ==
    /\ 100 <= cullKeys.m_cullNear
    /\ cullKeys.m_cullNear < cullKeys.m_cullFar
    /\ cullKeys.m_cullFar <= 5000000
    /\ cullKeys.m_camera = [ nearZ |-> 1000, farZ |-> 5000000 ]
    /\ cullKeys.m_playerCam = [ nearZ |-> 1000, farZ |-> 50000 ]

\* The plus key has driven the far plane to the cap of 500.
C29_Witness ==
    /\ cullKeys.presses > 0
    /\ cullKeys.m_cullFar = 5000000


\* C30: when a MatPushGuard is destroyed the depth (top) is the depth at its
\* construction, whatever push, pushLocal, pop and reset calls ran inside the
\* scope and also when the guard's own push failed at full depth; always
\* 0 <= top < MAX_DEPTH; a push at full depth returns false and leaves the
\* stack as it was; pop at depth 0 changes nothing.
C30_GuardRestoresDepth ==
    /\ 0 <= mstack.top /\ mstack.top < MAX_DEPTH
    /\ msLast.op = "guard_exit" => mstack.top = msLast.ctorTop
    /\ (/\ msLast.op \in { "push", "pushLocal", "guard_enter" }
        /\ msLast.top = MAX_DEPTH - 1)
          => /\ ~msLast.ok
             /\ mstack.top = msLast.top
             /\ mstack.stack = msLast.stack
    /\ (msLast.op = "pop" /\ msLast.top = 0)
          => /\ mstack.top = msLast.top
             /\ mstack.stack = msLast.stack

\* A guard constructed at full depth, whose push failed, has been destroyed
\* after the calls inside its scope had changed the depth.
C30_Witness ==
    /\ msLast.op = "guard_exit"
    /\ msLast.ctorTop = MAX_DEPTH - 1
    /\ msLast.top # msLast.ctorTop
    /\ mstack.top = MAX_DEPTH - 1

====
